---- MODULE Spec2Model ----
(***************************************************************************)
(* A model of the Comprehensive Evaluator of the Phoenix Strategy Analyzer *)
(* (analysis/validators/comprehensive.py) and of the validator categories  *)
(* it orchestrates.                                                        *)
(*                                                                         *)
(* Numbers.  The program computes in IEEE doubles.  The model computes     *)
(*   - ratios (win rate, scores, averages, thresholds) as exact rationals  *)
(*     [num, den], den > 0, in lowest terms;                               *)
(*   - capital curves in fixed point, Units(1) units to the dollar.        *)
(* Results the program obtains with square roots, distribution functions   *)
(* or from the calendar dates of the trades (p-value, Sharpe magnitude,    *)
(* monthly statistics, R^2) are facts of the trade table: the model draws  *)
(* them with the table, from values on both sides of every threshold the   *)
(* evaluator compares them with, and keeps the relations to the table that *)
(* can be computed exactly (the sign of the Sharpe ratio, p >= 1 when at   *)
(* most half of the trades win).                                           *)
(***************************************************************************)
EXTENDS Integers, Sequences, FiniteSets, TLC

\* ------------------------------------------------------------------ bounds
\* Number of reads of the wall clock (datetime.now()) made on one evaluator.
MaxClock == 2
\* Number of evaluators constructed, one after the other, on the same table.
MaxRuns == 2

\* ------------------------------------------------------- rational numbers
Abs(x) == IF x < 0 THEN -x ELSE x

RECURSIVE Gcd(_, _)
Gcd(a, b) == IF b = 0 THEN a ELSE Gcd(b, a % b)

\* The rational n/d in lowest terms with a positive denominator (d # 0).
R(n, d) ==
    LET g == Gcd(Abs(n), Abs(d))
        s == IF d < 0 THEN -1 ELSE 1
    IN  [num |-> (s * n) \div g, den |-> (s * d) \div g]

RInt(n) == [num |-> n, den |-> 1]
RLt(a, b) == a.num * b.den < b.num * a.den
RLe(a, b) == a.num * b.den <= b.num * a.den
RAdd(a, b) == R(a.num * b.den + b.num * a.den, a.den * b.den)
RSub(a, b) == R(a.num * b.den - b.num * a.den, a.den * b.den)
RMul(a, b) == R(a.num * b.num, a.den * b.den)
\* a / b, b # 0
RDiv(a, b) == R(a.num * b.den, a.den * b.num)
RAbs(a) == [num |-> Abs(a.num), den |-> a.den]
\* Python's min(a, b) and max(a, b): the first argument unless the second is
\* strictly smaller (larger).
PyMin(a, b) == IF RLt(b, a) THEN b ELSE a
PyMax(a, b) == IF RLt(a, b) THEN b ELSE a

\* Fixed-point amount of x dollars.
Units(x) == x * 10000

\* ------------------------------------------------------------ sequences
Range(s) == {s[k] : k \in 1..Len(s)}

RECURSIVE Rep(_, _)
\* The pattern s repeated k times.
Rep(s, k) == IF k = 0 THEN <<>> ELSE s \o Rep(s, k - 1)

\* The loops over the trades are evaluated by halves: a loop over s is the
\* loop over the first half of s followed by the loop over the rest.
FirstHalf(s) == SubSeq(s, 1, Len(s) \div 2)
Rest(s) == SubSeq(s, Len(s) \div 2 + 1, Len(s))

RECURSIVE SumSeq(_)
SumSeq(s) ==
    IF s = <<>> THEN 0
    ELSE IF Len(s) = 1 THEN s[1]
    ELSE SumSeq(FirstHalf(s)) + SumSeq(Rest(s))

IsWin(r) == r > 0
IsLoss(r) == r <= 0
IsNeg(r) == r < 0
\* (s > 0).sum(), len(df[df['return_pct'] <= 0])
CountWins(s) == Len(SelectSeq(s, IsWin))
CountLosses(s) == Len(SelectSeq(s, IsLoss))

RECURSIVE Accumulate(_, _)
\* The running maximum of curve, m being the maximum before its head.
Accumulate(curve, m) ==
    IF curve = <<>> THEN <<>>
    ELSE IF Len(curve) = 1
    THEN <<IF curve[1] > m THEN curve[1] ELSE m>>
    ELSE LET first == Accumulate(FirstHalf(curve), m)
         IN  first \o Accumulate(Rest(curve), first[Len(first)])

\* np.maximum.accumulate
RunningMax(curve) ==
    IF curve = <<>> THEN <<>> ELSE Accumulate(curve, curve[1])

\* The least element of a non-empty sequence of integers (ndarray.min()).
MinOf(s) == CHOOSE x \in {s[k] : k \in 1..Len(s)} :
                \A y \in {s[k] : k \in 1..Len(s)} : x <= y

\* ------------------------------------------------------ the trade table
\* A trade table: the return_pct column (whole percents, in exit order) and,
\* when the table carries one, the cumulative P&L column.
Table(rets) == [return_pct |-> rets, has_cum |-> FALSE, cum_pnl_pct |-> <<>>]
TableWithCum(rets, cum) ==
    [return_pct |-> rets, has_cum |-> TRUE, cum_pnl_pct |-> cum]

\* initial_capital: float = 50.0
InitialCapital == 50

RECURSIVE Compound(_, _, _)
\* c * np.cumprod(1 + returns / div): one value per trade, no initial point.
Compound(c, rets, div) ==
    IF rets = <<>> THEN <<>>
    ELSE IF Len(rets) = 1 THEN <<c + (c \div div) * rets[1]>>
    ELSE LET first == Compound(c, FirstHalf(rets), div)
         IN  first \o Compound(first[Len(first)], Rest(rets), div)

\* The capital curve the drawdown of the disqualification gate is taken of.
CapitalCurve(df) ==
    IF df.has_cum
    THEN [k \in 1..Len(df.cum_pnl_pct) |->
             Units(InitialCapital)
             + (Units(InitialCapital) \div 100) * df.cum_pnl_pct[k]]
    ELSE Compound(Units(InitialCapital), df.return_pct, 100)

\* drawdown[mask] = (capital_curve - running_max) / running_max, 0 elsewhere;
\* in whole percents rounded down, so that x < -50 iff the ratio is < -0.5.
DrawdownPct(curve) ==
    LET rm == RunningMax(curve)
    IN  [k \in 1..Len(curve) |->
            IF rm[k] > 0 THEN ((curve[k] - rm[k]) * 100) \div rm[k] ELSE 0]

\* ------------------------------------------------- validator categories
\* The six categories in the order run_all_validators runs them, and the
\* result keys of each in the order its run_all evaluates them.
Categories ==
    <<"timeseries", "statistics", "trade_analysis", "extreme_scenario",
      "position_sizing", "advanced_stats">>

SubKeys(cat) ==
    CASE cat = "timeseries" ->
            <<"1-1_monthly", "1-2_consecutive", "1-3_holding_period",
              "1-4_trade_density", "1-5_equity_curve">>
      [] cat = "statistics" ->
            <<"2-1_win_rate", "2-2_profit", "2-3_distribution", "2-4_tail_risk">>
      [] cat = "trade_analysis" ->
            <<"3-1_win_loss_comparison", "3-2_classification", "trade_summary">>
      [] cat = "extreme_scenario" ->
            <<"4-4_capital_shortage", "5-2_bootstrap", "5-3_extreme_values",
              "6-2_capital_growth", "6-3_capital_regression">>
      [] cat = "position_sizing" ->
            <<"7-3_risk_adjusted", "9-1_kelly", "9-3_dynamic_lot">>
      [] cat = "advanced_stats" ->
            <<"8-1_profit_slope", "8-2_autocorrelation", "8-3_heteroscedasticity">>

CategorySet == Range(Categories)
AllSubKeys == UNION {Range(SubKeys(c)) : c \in CategorySet}

\* The sub-analyses whose body is wrapped in try/except and that return {}
\* instead of raising.
Guarded == {"1-1_monthly", "3-1_win_loss_comparison", "3-2_classification"}

\* The empty dict {} (a function with an empty domain).
EmptyDict == <<>>
IsEmptyDict(d) == DOMAIN d = {}
\* dict.get(key, default)
Get(d, key, default) == IF key \in DOMAIN d THEN d[key] ELSE default

\* TimeSeriesAnalyzer._get_max_consecutive over (return_pct > 0) or (<= 0):
\* current_count after each trade of rets, from its value before the first.
RECURSIVE CurrentCounts(_, _, _)
CurrentCounts(rets, wins, current_count) ==
    IF rets = <<>> THEN <<>>
    ELSE IF Len(rets) = 1
    THEN <<IF (IF wins THEN rets[1] > 0 ELSE rets[1] <= 0)
           THEN current_count + 1 ELSE 0>>
    ELSE LET first == CurrentCounts(FirstHalf(rets), wins, current_count)
         IN  first \o CurrentCounts(Rest(rets), wins, first[Len(first)])

\* A variant of get_max_consecutive that returns the count of the run the
\* sequence ends with.
get_last_consecutive(rets, wins) ==
    IF rets = <<>> THEN 0
    ELSE CurrentCounts(rets, wins, 0)[Len(rets)]

\* max_count: the greatest value current_count takes, 0 at the start.
get_max_consecutive(rets, wins) ==
    LET counts == {0} \cup Range(CurrentCounts(rets, wins, 0))
    IN  CHOOSE m \in counts : \A c \in counts : c <= m

analyze_consecutive_trades(df) ==
    [max_consecutive_wins |-> get_max_consecutive(df.return_pct, TRUE),
     max_consecutive_losses |-> get_max_consecutive(df.return_pct, FALSE)]

\* TradeAnalyzer.compare_win_loss: both partitions, risk-reward ratio and
\* profit factor with their zero-denominator guards.
compare_win_loss(df) ==
    LET winning == SelectSeq(df.return_pct, IsWin)
        losing == SelectSeq(df.return_pct, IsLoss)
        win_avg == IF Len(winning) > 0 THEN R(SumSeq(winning), Len(winning))
                   ELSE RInt(0)
        loss_avg == IF Len(losing) > 0 THEN R(SumSeq(losing), Len(losing))
                    ELSE RInt(0)
        avg_win == RAbs(win_avg)
        avg_loss == RAbs(loss_avg)
    IN  [winning_trades |-> [count |-> Len(winning), avg_return |-> win_avg],
         losing_trades |-> [count |-> Len(losing), avg_return |-> loss_avg],
         risk_reward_ratio |->
             IF RLt(RInt(0), avg_loss) THEN RDiv(avg_win, avg_loss) ELSE RInt(0),
         profit_factor |->
             IF Len(losing) > 0 /\ RLt(RInt(0), avg_loss)
             THEN RDiv(RMul(avg_win, RInt(Len(winning))),
                       RMul(avg_loss, RInt(Len(losing))))
             ELSE RInt(0)]

\* A variant of FindTradesToRuin that looks for the first capital < 0.
FindTradesBelowZero(capital_history) ==
    LET ruined == {i \in 1..Len(capital_history) : capital_history[i] < 0}
    IN  IF ruined = {} THEN -1
        ELSE (CHOOSE i \in ruined : \A j \in ruined : i <= j) - 1

\* ExtremeScenarioAnalyzer._find_trades_to_ruin: the index (from 0) of the
\* first capital <= 0, -1 when there is none.
FindTradesToRuin(capital_history) ==
    LET ruined == {i \in 1..Len(capital_history) : capital_history[i] <= 0}
    IN  IF ruined = {} THEN -1
        ELSE (CHOOSE i \in ruined : \A j \in ruined : i <= j) - 1

\* ExtremeScenarioAnalyzer.analyze_capital_shortage(fixed_lot_pct): the replay
\* capital += capital * (fixed_lot_pct / 100) * (return_pct / 100), the path
\* starting with the initial capital.
CapitalHistory(rets, fixed_lot_pct) ==
    <<Units(InitialCapital)>>
    \o Compound(Units(InitialCapital), rets, 10000 \div fixed_lot_pct)

analyze_capital_shortage(df, fixed_lot_pct) ==
    LET capital_history == CapitalHistory(df.return_pct, fixed_lot_pct)
    IN  [survived |-> MinOf(capital_history) > 0,
         trades_to_ruin |-> FindTradesToRuin(capital_history),
         margin_of_safety |-> R(MinOf(capital_history), Units(1))]

\* PositionSizer.rank_risk_adjusted_returns: the Sharpe ratio
\* (mean * 252 - risk_free_rate) / (std * sqrt(252)), 0 when the std is 0.
\* The sign is computed; the magnitude needs a square root and is the
\* table's fact sharpe_abs.
rank_risk_adjusted_returns(df, facts) ==
    LET n == Len(df.return_pct)
        excess == RSub(R(252 * SumSeq(df.return_pct), 100 * n), R(2, 100))
        std_positive == \E i \in 1..n : df.return_pct[i] # df.return_pct[1]
    IN  [sharpe_ratio |->
            IF ~std_positive \/ excess.num = 0 THEN RInt(0)
            ELSE IF excess.num > 0 THEN facts.sharpe_abs
            ELSE RSub(RInt(0), facts.sharpe_abs)]

\* What a sub-analysis returns when it does not raise.  Only the fields the
\* evaluator reads are kept; boot is the mean the bootstrap's unseeded
\* np.random.choice resampling produced in this call.
SubResult(key, df, facts, boot) ==
    CASE key = "1-1_monthly" ->
            [negative_months |-> facts.negative_months,
             monthly_consistency |-> facts.monthly_consistency]
      [] key = "1-2_consecutive" -> analyze_consecutive_trades(df)
      [] key = "2-1_win_rate" -> [p_value |-> facts.p_value]
      [] key = "3-1_win_loss_comparison" -> compare_win_loss(df)
      [] key = "trade_summary" ->
            [profit_factor |-> compare_win_loss(df).profit_factor]
      [] key = "4-4_capital_shortage" -> analyze_capital_shortage(df, 1)
      [] key = "5-2_bootstrap" -> [bootstrap_mean |-> boot]
      [] key = "7-3_risk_adjusted" -> rank_risk_adjusted_returns(df, facts)
      [] key = "8-1_profit_slope" -> [r_squared |-> facts.r_squared]
      [] OTHER -> [computed |-> TRUE]

\* Whether the evaluation of a key's entry in run_all raises: an unguarded
\* sub-analysis that raises, or get_trade_summary indexing the {} that a
\* failed compare_win_loss returned.
KeyRaises(key, raises) ==
    \/ key \in raises /\ key \notin Guarded
    \/ key = "trade_summary" /\ "3-1_win_loss_comparison" \in raises

\* <Analyzer>.run_all(): the dict of all sub-analysis results, or an
\* exception ("raised") when the evaluation of one entry raises.
run_all(cat, df, facts, raises, boot) ==
    IF \E k \in Range(SubKeys(cat)) : KeyRaises(k, raises)
    THEN [raised |-> TRUE, results |-> EmptyDict]
    ELSE [raised |-> FALSE,
          results |-> [k \in Range(SubKeys(cat)) |->
                          IF k \in raises THEN EmptyDict
                          ELSE SubResult(k, df, facts, boot)]]

\* ComprehensiveEvaluator.run_all_validators: each category in its own
\* try/except, a category that raised replaced by {}.
Caught(r) == IF r.raised THEN EmptyDict ELSE r.results

RunAllValidators(df, facts, raises, boot) ==
    [c \in CategorySet |-> Caught(run_all(c, df, facts, raises, boot))]

\* --------------------------------------------- the evaluator's fields
\* __init__: total_trades, win_rate, total_return of the table passed in.
total_trades(df) == Len(df.return_pct)
win_rate(df) ==
    IF Len(df.return_pct) > 0
    THEN R(CountWins(df.return_pct), Len(df.return_pct)) ELSE RInt(0)
total_return(df) == SumSeq(df.return_pct)

\* ------------------------------------------- the disqualification gate
Opt(cond, reason) == IF cond THEN <<reason>> ELSE <<>>

\* Thresholds of the gate.
MinTrades == 30
MinDays == 180
MaxConsecLoss == 7
MaxAvgLoss == 3
MinNegativeMonths == 5

\* drawdown.min(): raises ValueError on a table without trades.
MaxDrawdownRaises(df) == Len(CapitalCurve(df)) = 0
max_drawdown(df) == MinOf(DrawdownPct(CapitalCurve(df)))

Tier1Reasons(df, total_days) ==
    Opt(total_trades(df) < MinTrades, "trades < 30")
    \o Opt(RLt(win_rate(df), R(1, 2)), "win rate < 50%")
    \o Opt(max_drawdown(df) < -50, "max drawdown > -50%")
    \o Opt(total_days < MinDays, "period < 6 months")

\* A variant of LowSharpe that also rejects a Sharpe ratio of exactly 1.0.
LowSharpeInclusive(sharpe) == RLe(sharpe, RInt(1))

\* The Sharpe test of reason 2-2.
LowSharpe(sharpe) == RLt(sharpe, RInt(1))

Tier2Reasons(vr) ==
    Opt(/\ "statistics" \in DOMAIN vr
        /\ "2-1_win_rate" \in DOMAIN vr["statistics"]
        /\ RLe(R(5, 100),
               Get(vr["statistics"]["2-1_win_rate"], "p_value", RInt(0))),
        "p-value >= 0.05")
    \o Opt(/\ "position_sizing" \in DOMAIN vr
           /\ "7-3_risk_adjusted" \in DOMAIN vr["position_sizing"]
           /\ LowSharpe(Get(vr["position_sizing"]["7-3_risk_adjusted"],
                            "sharpe_ratio", RInt(0))),
           "Sharpe < 1.0")
    \o Opt(/\ "timeseries" \in DOMAIN vr
           /\ "1-2_consecutive" \in DOMAIN vr["timeseries"]
           /\ Get(vr["timeseries"]["1-2_consecutive"],
                  "max_consecutive_losses", 0) >= MaxConsecLoss,
           "max consecutive losses >= 7")
    \o Opt(/\ "trade_analysis" \in DOMAIN vr
           /\ "3-1_win_loss_comparison" \in DOMAIN vr["trade_analysis"]
           /\ "losing_trades"
                 \in DOMAIN vr["trade_analysis"]["3-1_win_loss_comparison"]
           /\ RLt(RInt(MaxAvgLoss),
                  RAbs(Get(vr["trade_analysis"]["3-1_win_loss_comparison"]
                             ["losing_trades"], "avg_return", RInt(0)))),
           "average loss > 3%")

\* A variant of RiskRewardWarns without the test rr_ratio > 0.
RiskRewardWarnsAtZero(rr_ratio) == RLt(rr_ratio, R(3, 2))

\* The rr_ratio test of warning 3-3.
RiskRewardWarns(rr_ratio) == RLt(rr_ratio, R(3, 2)) /\ RLt(RInt(0), rr_ratio)

Tier3Warnings(df, total_days, vr) ==
    LET daily_avg == IF total_days > 0 THEN R(total_trades(df), total_days)
                     ELSE RInt(0)
        monthly_avg == IF total_days > 0
                       THEN RDiv(RInt(total_trades(df)), R(total_days, 30))
                       ELSE RInt(0)
    IN  Opt(RLt(RInt(1), daily_avg), "daily trades > 1")
        \o Opt(RLt(monthly_avg, RInt(2)), "monthly trades < 2")
        \o Opt(/\ "trade_analysis" \in DOMAIN vr
               /\ "3-1_win_loss_comparison" \in DOMAIN vr["trade_analysis"]
               /\ RiskRewardWarns(
                      Get(vr["trade_analysis"]["3-1_win_loss_comparison"],
                          "risk_reward_ratio", RInt(0))),
               "win/loss ratio < 1.5")
        \o Opt(/\ "timeseries" \in DOMAIN vr
               /\ "1-1_monthly" \in DOMAIN vr["timeseries"]
               /\ Get(vr["timeseries"]["1-1_monthly"], "negative_months", 0)
                     >= MinNegativeMonths,
               "negative months >= 5")
        \o Opt(/\ "timeseries" \in DOMAIN vr
               /\ "1-1_monthly" \in DOMAIN vr["timeseries"]
               /\ RLt(RInt(2), Get(vr["timeseries"]["1-1_monthly"],
                                   "monthly_consistency", RInt(0))),
               "monthly deviation > 200%")

\* A variant of Verdict that lists the reasons of every tier.
VerdictListingAll(tier1_reasons, tier2_reasons, tier3_warnings) ==
    [status |-> IF tier1_reasons \o tier2_reasons # <<>> THEN "NO-GO"
                ELSE IF tier3_warnings # <<>> THEN "GO (conditional)"
                ELSE "GO (strongly recommended)",
     tier |-> IF tier1_reasons # <<>> THEN "Tier 1"
              ELSE IF tier2_reasons # <<>> THEN "Tier 2"
              ELSE IF tier3_warnings # <<>> THEN "Tier 3"
              ELSE "All Clear",
     reasons |-> tier1_reasons \o tier2_reasons \o tier3_warnings]

\* The final judgement: the first non-empty tier.
Verdict(tier1_reasons, tier2_reasons, tier3_warnings) ==
    IF tier1_reasons # <<>>
    THEN [status |-> "NO-GO", tier |-> "Tier 1", reasons |-> tier1_reasons]
    ELSE IF tier2_reasons # <<>>
    THEN [status |-> "NO-GO", tier |-> "Tier 2", reasons |-> tier2_reasons]
    ELSE IF tier3_warnings # <<>>
    THEN [status |-> "GO (conditional)", tier |-> "Tier 3",
          reasons |-> tier3_warnings]
    ELSE [status |-> "GO (strongly recommended)", tier |-> "All Clear",
          reasons |-> <<>>]

\* The dict check_disqualification_criteria stores and returns.
Judged(v, df, total_days) ==
    [status |-> v.status, tier |-> v.tier, reasons |-> v.reasons,
     total_trades |-> total_trades(df),
     win_rate |-> RMul(win_rate(df), RInt(100)),
     max_drawdown |-> max_drawdown(df),
     trading_period_days |-> total_days]

Disqualification(df, total_days, vr) ==
    Judged(Verdict(Tier1Reasons(df, total_days), Tier2Reasons(vr),
                   Tier3Warnings(df, total_days, vr)),
           df, total_days)

\* ------------------------------------------------- the composite score
\* The eight categories; in the source: '백테스트 성과', 'Walk-Forward',
\* '시계열 안정성', '통계 신뢰도', '거래 특성', '극한 상황', '포지션 최적화',
\* '고급 통계'.
ScoreCategories ==
    {"backtest", "walk_forward", "stability", "confidence", "trade",
     "extreme", "position", "advanced"}

\* The score of a category whose validator result is missing.
Neutral == 50
\* scores['Walk-Forward'] = 75
WalkForwardScore == 75

HasResult(vr, cat, key) == cat \in DOMAIN vr /\ key \in DOMAIN vr[cat]

BacktestScore(df) ==
    LET win_rate_score == PyMin(RMul(win_rate(df), RInt(100)), RInt(100))
        return_score ==
            IF total_return(df) > 0
            THEN PyMin(RMul(R(total_return(df), 40), RInt(100)), RInt(100))
            ELSE RInt(0)
        backtest_score == RAdd(RMul(win_rate_score, R(1, 2)),
                               RMul(return_score, R(1, 2)))
    IN  PyMin(backtest_score, RInt(100))

StabilityScore(vr) ==
    IF HasResult(vr, "timeseries", "1-1_monthly")
    THEN LET monthly_cv == Get(vr["timeseries"]["1-1_monthly"],
                               "monthly_consistency", RInt(1))
         IN  PyMax(RInt(0),
                   RMul(RInt(100), RSub(RInt(1), PyMin(monthly_cv, RInt(1)))))
    ELSE RInt(Neutral)

ConfidenceScore(vr) ==
    IF HasResult(vr, "statistics", "2-1_win_rate")
    THEN LET p_value == Get(vr["statistics"]["2-1_win_rate"], "p_value",
                            R(1, 2))
         IN  IF RLt(p_value, R(1, 1000)) THEN RInt(100)
             ELSE IF RLt(p_value, R(1, 100)) THEN RInt(90)
             ELSE IF RLt(p_value, R(5, 100)) THEN RInt(80)
             ELSE IF RLt(p_value, R(1, 10)) THEN RInt(60)
             ELSE RInt(30)
    ELSE RInt(Neutral)

TradeScore(vr) ==
    IF HasResult(vr, "trade_analysis", "3-1_win_loss_comparison")
    THEN LET pf == Get(vr["trade_analysis"]["3-1_win_loss_comparison"],
                       "profit_factor", RInt(1))
         IN  PyMin(RMul(pf, RInt(50)), RInt(100))
    ELSE RInt(Neutral)

\* A variant of ExtremeScore that takes the margin from the bootstrap mean.
ExtremeScoreResampled(vr) ==
    IF HasResult(vr, "extreme_scenario", "5-2_bootstrap")
    THEN PyMin(RInt(100 - Get(vr["extreme_scenario"]["5-2_bootstrap"],
                              "bootstrap_mean", 0)),
               RInt(100))
    ELSE RInt(Neutral)

ExtremeScore(vr) ==
    IF HasResult(vr, "extreme_scenario", "4-4_capital_shortage")
    THEN LET extreme_results == vr["extreme_scenario"]["4-4_capital_shortage"]
             survived == Get(extreme_results, "survived", FALSE)
             margin == Get(extreme_results, "margin_of_safety",
                           RInt(InitialCapital))
         IN  IF survived
             THEN PyMin(RMul(RDiv(margin, RInt(InitialCapital)), RInt(100)),
                        RInt(100))
             ELSE RInt(0)
    ELSE RInt(Neutral)

PositionScore(vr) ==
    IF HasResult(vr, "position_sizing", "7-3_risk_adjusted")
    THEN LET sharpe == Get(vr["position_sizing"]["7-3_risk_adjusted"],
                           "sharpe_ratio", RInt(0))
         IN  PyMin(RMul(RDiv(sharpe, RInt(2)), RInt(100)), RInt(100))
    ELSE RInt(Neutral)

AdvancedScore(vr) ==
    IF HasResult(vr, "advanced_stats", "8-1_profit_slope")
    THEN LET r_squared == Get(vr["advanced_stats"]["8-1_profit_slope"],
                              "r_squared", RInt(0))
         IN  PyMin(RMul(r_squared, RInt(125)), RInt(100))
    ELSE RInt(Neutral)

Scores(df, vr) ==
    [c \in ScoreCategories |->
        CASE c = "backtest" -> BacktestScore(df)
          [] c = "walk_forward" -> RInt(WalkForwardScore)
          [] c = "stability" -> StabilityScore(vr)
          [] c = "confidence" -> ConfidenceScore(vr)
          [] c = "trade" -> TradeScore(vr)
          [] c = "extreme" -> ExtremeScore(vr)
          [] c = "position" -> PositionScore(vr)
          [] c = "advanced" -> AdvancedScore(vr)]

RECURSIVE RSum(_, _)
\* The sum of f over the set S.
RSum(f, S) ==
    IF S = {} THEN RInt(0)
    ELSE LET x == CHOOSE y \in S : TRUE
         IN  RAdd(f[x], RSum(f, S \ {x}))

\* np.mean(list(scores.values()))
MeanScore(scores) == RDiv(RSum(scores, DOMAIN scores),
                          RInt(Cardinality(DOMAIN scores)))

Rating(final) ==
    IF RLe(RInt(85), final) THEN "excellent"
    ELSE IF RLe(RInt(75), final) THEN "good"
    ELSE IF RLe(RInt(60), final) THEN "fair"
    ELSE "needs improvement"

\* The dict generate_final_score stores and returns; now is datetime.now().
Rated(scores, final, now) ==
    [scores |-> scores, final_score |-> final, rating |-> Rating(final),
     timestamp |-> now]
Averaged(scores, now) == Rated(scores, MeanScore(scores), now)
FinalScore(df, vr, now) == Averaged(Scores(df, vr), now)

\* ------------------------------------------------------------- inputs
\* Trade tables (return_pct in whole percents).
EmptyTable == Table(<<>>)
TwoTrades == Table(<<2, -1>>)
\* 10 winning trades.
FewTrades == Table(Rep(<<2>>, 10))
\* 30 trades, a third of them winning.
LosingTable == Table(Rep(<<2, -1, -1>>, 10))
\* 36 trades, a single loss of 60% after thirty gains.
CrashTable == Table(Rep(<<2>>, 30) \o <<-60>> \o Rep(<<2>>, 5))
\* The same loss as the first trade of the table.
FirstLossTable == Table(<<-60>> \o Rep(<<2>>, 35))
\* A loss of exactly 50%.
HalfTable == Table(Rep(<<2>>, 30) \o <<-50>> \o Rep(<<2>>, 5))
\* 36 trades, 30 winning, small losses.
GoodTable == Table(Rep(<<2, 2, 2, 2, 2, -1>>, 6))
\* Wins and losses of the same size.
LowRewardTable == Table(Rep(<<1, 1, 1, 1, 1, -1>>, 6))
\* 40 trades, exactly half of them winning.
EvenTable == Table(Rep(<<2, -1>>, 20))
\* No losing trade.
NoLossTable == Table(Rep(<<2, 3>>, 18))
\* Seven losses in a row.
StreakTable == Table(Rep(<<2>>, 30) \o Rep(<<-1>>, 7))
\* Mean loss above 3%.
BigLossTable == Table(Rep(<<5, 5, 5, 5, 5, -4>>, 6))
\* Mostly losing: a negative mean return.
SinkingTable == Table(Rep(<<1, -2, 1, -2, 1>>, 8))
\* 185 trades.
BusyTable == Table(Rep(<<2, 2, 2, 2, -1>>, 37))
\* A first trade that loses a hundred times the stake: ruin at a 1% lot.
RuinTable == Table(<<-10000, 2, 2>>)
\* GoodTable carrying a cumulative P&L column that halves more than once,
\* and CrashTable carrying one that never falls.
GoodTableCum ==
    TableWithCum(GoodTable.return_pct,
                 Rep(<<10>>, 10) \o Rep(<<-60>>, 10) \o Rep(<<20>>, 16))
CrashTableCum ==
    TableWithCum(CrashTable.return_pct, [k \in 1..36 |-> k])

Tables ==
    {EmptyTable, TwoTrades, FewTrades, LosingTable, CrashTable, FirstLossTable,
     HalfTable, GoodTable, LowRewardTable, EvenTable, NoLossTable, StreakTable,
     BigLossTable, SinkingTable, BusyTable, RuinTable, GoodTableCum,
     CrashTableCum}

\* (end_date - start_date).days
DaySpans == {0, 100, 179, 180, 190, 600}

\* The facts of a table the model does not compute (see the head of the
\* module), each on both sides of the thresholds it is compared with.
PValues == {R(1, 10000), R(5, 1000), R(3, 100), R(5, 100), R(7, 100), R(1, 10)}
\* 2 * binom.sf(wins - 1, n, 0.5) when at most half of the trades win.
PValueHalf == R(12, 10)
SharpeMagnitudes == {R(1, 2), RInt(1), RInt(3), RInt(20)}
NegativeMonths == {0, 4, 5}
MonthlyConsistencies == {R(1, 2), RInt(2), RInt(3)}
RSquareds == {RInt(0), R(1, 2), R(9, 10)}

BaseFacts ==
    [p_value |-> R(3, 100), sharpe_abs |-> RInt(3), negative_months |-> 0,
     monthly_consistency |-> R(1, 2), r_squared |-> R(9, 10)]

FactProfiles ==
    {BaseFacts}
    \cup {[BaseFacts EXCEPT !.p_value = v] : v \in PValues}
    \cup {[BaseFacts EXCEPT !.sharpe_abs = v] : v \in SharpeMagnitudes}
    \cup {[BaseFacts EXCEPT !.negative_months = v] : v \in NegativeMonths}
    \cup {[BaseFacts EXCEPT !.monthly_consistency = v] :
             v \in MonthlyConsistencies}
    \cup {[BaseFacts EXCEPT !.r_squared = v] : v \in RSquareds}

\* A profile as a fact of the table df: 2 * binom.sf(wins - 1, n, 0.5) is
\* above 1 when at most half of the trades win.
FactOf(df, f) ==
    IF 2 * CountWins(df.return_pct) <= Len(df.return_pct)
    THEN [f EXCEPT !.p_value = PValueHalf] ELSE f
FactsOf(df) == {FactOf(df, f) : f \in FactProfiles}
BaseFactsOf(df) == FactOf(df, BaseFacts)

\* Sub-analyses that raise on a table whatever its other columns hold.  On
\* an empty table test_win_rate_confidence divides by n_trades = 0,
\* rank_risk_adjusted_returns takes the minimum of an empty drawdown and
\* test_profit_slope fits an empty vector; when exactly half of the trades
\* win, test_win_rate_confidence converts an infinite required sample size
\* to int; with fewer than three trades analyze_distribution's Shapiro-Wilk
\* test rejects the sample.
MustRaise(df) ==
    (IF Len(df.return_pct) = 0
     THEN {"2-1_win_rate", "7-3_risk_adjusted", "8-1_profit_slope"} ELSE {})
    \cup (IF 2 * CountWins(df.return_pct) = Len(df.return_pct)
          THEN {"2-1_win_rate"} ELSE {})
    \cup (IF Len(df.return_pct) < 3 THEN {"2-3_distribution"} ELSE {})

\* Further sub-analyses that raise, on a defect of the table the model does
\* not represent (a missing or malformed column): none, or one.
Defects == {{}} \cup {{k} : k \in AllSubKeys}

\* The bootstrap means different calls can report: one when every trade has
\* the same return, BootOutcomes otherwise.
BootOutcomes == 2
BootMeans(df) ==
    IF \A i \in 1..Len(df.return_pct) : df.return_pct[i] = df.return_pct[1]
    THEN {0} ELSE 0..(BootOutcomes - 1)

\* The tables every span is drawn for, those two spans are drawn for, those
\* every fact profile is drawn for and those a defect is drawn for.
SpanTables == {GoodTable}
ShortSpanTables == {BusyTable, LosingTable}
FactTables == {GoodTable, SinkingTable, LosingTable}
DefectTables == {GoodTable, StreakTable}
ColumnTables == {GoodTable}

\* The dtype of the exit_date column of a table the caller passes in: no
\* such column, strings (object) or timestamps.
ExitDateDTypes == {"absent", "object", "datetime64[ns]"}

\* pd.to_datetime on a column.
to_datetime(dtype) == IF dtype = "object" THEN "datetime64[ns]" ELSE dtype

\* What __init__ does to the columns of the table object it is passed:
\* trades_df['exit_date'] = pd.to_datetime(trades_df['exit_date']).
Constructed(columns) ==
    IF columns.exit_date # "absent"
    THEN [columns EXCEPT !.exit_date = to_datetime(@)]
    ELSE columns

Input(t, d, f, x) ==
    [df |-> t, days |-> d, facts |-> f, raises |-> MustRaise(t) \cup x,
     columns |-> [exit_date |-> "datetime64[ns]"]]

\* The input i with an exit_date column of another dtype; without the
\* column analyze_trade_density raises a KeyError.
WithExitDate(i, dtype) ==
    [i EXCEPT !.columns = [exit_date |-> dtype],
              !.raises = @ \cup (IF dtype = "absent"
                                 THEN {"1-4_trade_density"} ELSE {})]

Inputs ==
    {Input(t, 190, BaseFactsOf(t), {}) : t \in Tables}
    \cup {Input(t, d, BaseFactsOf(t), {}) : t \in SpanTables, d \in DaySpans}
    \cup {Input(t, d, BaseFactsOf(t), {}) :
             t \in ShortSpanTables, d \in {100, 180}}
    \cup UNION {{Input(t, 190, f, {}) : f \in FactsOf(t)} : t \in FactTables}
    \cup {Input(t, 190, BaseFactsOf(t), x) : t \in DefectTables, x \in Defects}
    \cup {WithExitDate(Input(t, 190, BaseFactsOf(t), {}), c) :
             t \in ColumnTables, c \in ExitDateDTypes}

\* The inputs evaluated more than once, each time by a new evaluator.
RepeatedInputs ==
    {Input(t, 190, BaseFactsOf(t), {}) :
        t \in {GoodTable, FewTrades, StreakTable, SinkingTable}}
    \cup {WithExitDate(Input(GoodTable, 190, BaseFactsOf(GoodTable), {}),
                       "object")}

\* -------------------------------------------------------------- state
VARIABLES
    trades_df,      \* self.trades_df: the table the evaluator was built on
    total_days,     \* self.total_days
    facts,          \* the facts of trades_df
    raises,         \* the sub-analyses that raise on trades_df
    evaluator,      \* the attributes the steps set on the evaluator
    clock,          \* the wall clock: the next value of datetime.now()
    last,           \* the last call on the evaluator and how it ended
    report,         \* what the last get_comprehensive_report returned
    run,            \* how many evaluators were built on trades_df so far
    prev_report,    \* the report of the evaluator built before this one
    given_df,       \* the columns of the caller's table when it was passed
    caller_df,      \* the columns of the caller's table now
    arg,            \* the input of an analyzer used on its own
    probe           \* the call made on that analyzer and what it returned

vars == <<trades_df, total_days, facts, raises, evaluator, clock, last,
          report, run, prev_report, given_df, caller_df, arg, probe>>

\* The evaluator right after __init__: no step has set its attribute.
NewEvaluator ==
    [attrs |-> {}, validator_results |-> EmptyDict,
     disqualification |-> EmptyDict, final_score |-> EmptyDict]

NoCall == [op |-> "__init__", raised |-> FALSE, steps |-> <<>>, before |-> {}]
NoReport == [returned |-> FALSE]
NoArg == [for |-> "none"]
NoProbe == [op |-> "none"]

\* The evaluator constructed on the input i.
InitEvaluator(i) ==
        /\ trades_df = i.df
        /\ total_days = i.days
        /\ facts = i.facts
        /\ raises = i.raises
        /\ evaluator = NewEvaluator
        /\ clock = 0
        /\ last = NoCall
        /\ report = NoReport
        /\ run = 1
        /\ prev_report = NoReport
        /\ given_df = i.columns
        /\ caller_df = Constructed(i.columns)

InitOn(inputs) ==
    \E i \in inputs :
        /\ InitEvaluator(i)
        /\ arg = NoArg
        /\ probe = NoProbe

Init == InitOn(Inputs)
InitRepeated == InitOn(RepeatedInputs)

\* ------------------------------------------------------------ methods
\* Each method is an operator from the evaluator (and what it draws from
\* the environment) to [ev, raised]: the evaluator after the call and
\* whether the call raised.
run_all_validators(ev, boot) ==
    [ev |-> [ev EXCEPT
                !.validator_results =
                    RunAllValidators(trades_df, facts, raises, boot),
                !.attrs = @ \cup {"validator_results"}],
     raised |-> FALSE]

\* Raises on drawdown.min() of an empty curve, then on the first read of
\* self.validator_results when run_all_validators has not run.
check_disqualification_criteria(ev) ==
    IF MaxDrawdownRaises(trades_df) \/ "validator_results" \notin ev.attrs
    THEN [ev |-> ev, raised |-> TRUE]
    ELSE [ev |-> [ev EXCEPT
                     !.disqualification =
                         Disqualification(trades_df, total_days,
                                          ev.validator_results),
                     !.attrs = @ \cup {"disqualification"}],
          raised |-> FALSE]

\* Raises on the first read of self.validator_results when it is not set.
generate_final_score(ev, now) ==
    IF "validator_results" \notin ev.attrs
    THEN [ev |-> ev, raised |-> TRUE]
    ELSE [ev |-> [ev EXCEPT
                     !.final_score =
                         FinalScore(trades_df, ev.validator_results, now),
                     !.attrs = @ \cup {"final_score"}],
          raised |-> FALSE]

\* The report dict.
Report(ev, now) ==
    [returned |-> TRUE,
     metadata |-> [total_trades |-> total_trades(trades_df),
                   initial_capital |-> InitialCapital,
                   timestamp |-> now],
     disqualification |-> ev.disqualification,
     final_score |-> ev.final_score,
     validators |-> ev.validator_results]

\* get_comprehensive_report, step by step.  c is the call so far: the
\* evaluator, whether a step raised, the steps called and the reads of the
\* clock.  A step is called when its attribute is not set, and a step that
\* raises ends the call.
Begin(ev) == [ev |-> ev, raised |-> FALSE, steps |-> <<>>, reads |-> 0]

Stepped(c, r, step, reads) ==
    [ev |-> r.ev, raised |-> r.raised, steps |-> Append(c.steps, step),
     reads |-> c.reads + (IF r.raised THEN 0 ELSE reads)]

ValidatorsStep(c, boot) ==
    IF "validator_results" \notin c.ev.attrs
    THEN Stepped(c, run_all_validators(c.ev, boot), "validator_results", 0)
    ELSE c

DisqualificationStep(c) ==
    IF ~c.raised /\ "disqualification" \notin c.ev.attrs
    THEN Stepped(c, check_disqualification_criteria(c.ev),
                 "disqualification", 0)
    ELSE c

FinalScoreStep(c, now) ==
    IF ~c.raised /\ "final_score" \notin c.ev.attrs
    THEN Stepped(c, generate_final_score(c.ev, now), "final_score", 1)
    ELSE c

\* The return of get_comprehensive_report: the report, stamped with a
\* further read of the clock.
Returned(c, now) ==
    IF c.raised
    THEN [ev |-> c.ev, raised |-> TRUE, steps |-> c.steps, reads |-> c.reads,
          report |-> NoReport]
    ELSE [ev |-> c.ev, raised |-> FALSE, steps |-> c.steps,
          reads |-> c.reads + 1, report |-> Report(c.ev, now + c.reads)]

get_comprehensive_report(ev, boot, now) ==
    Returned(FinalScoreStep(DisqualificationStep(
                 ValidatorsStep(Begin(ev), boot)), now), now)

\* get_summary: generates the score when it is not set, then formats
\* self.disqualification, which raises when that is not set.
Summarized(c) ==
    [ev |-> c.ev, reads |-> c.reads, steps |-> c.steps,
     raised |-> c.raised \/ "disqualification" \notin c.ev.attrs,
     report |-> NoReport]

get_summary(ev, now) == Summarized(FinalScoreStep(Begin(ev), now))

\* ------------------------------------------------------------ actions
\* A call of op ending as r on the evaluator: the attributes it set, the
\* clock it read, what it returned.
Call(op, r) ==
    /\ clock + r.reads <= MaxClock * run
    /\ evaluator' = r.ev
    /\ clock' = clock + r.reads
    /\ last' = [op |-> op, raised |-> r.raised, steps |-> r.steps,
                before |-> evaluator.attrs]
    /\ report' = IF op = "get_comprehensive_report" THEN r.report ELSE report
    /\ UNCHANGED <<trades_df, total_days, facts, raises, run, prev_report,
                   given_df, caller_df, arg, probe>>

RunAllValidatorsCall ==
    \E boot \in BootMeans(trades_df) :
        Call("run_all_validators",
             Stepped(Begin(evaluator), run_all_validators(evaluator, boot),
                     "validator_results", 0))

CheckDisqualificationCall ==
    Call("check_disqualification_criteria",
         Stepped(Begin(evaluator), check_disqualification_criteria(evaluator),
                 "disqualification", 0))

GenerateFinalScoreCall ==
    Call("generate_final_score",
         Stepped(Begin(evaluator), generate_final_score(evaluator, clock),
                 "final_score", 1))

GetComprehensiveReportCall ==
    \E boot \in BootMeans(trades_df) :
        Call("get_comprehensive_report",
             get_comprehensive_report(evaluator, boot, clock))

GetSummaryCall == Call("get_summary", get_summary(evaluator, clock))

\* A second evaluator is constructed on the caller's table once the first
\* has delivered its report.
Construct ==
    /\ run < MaxRuns
    /\ report.returned
    /\ run' = run + 1
    /\ prev_report' = report
    /\ evaluator' = NewEvaluator
    /\ last' = NoCall
    /\ report' = NoReport
    /\ caller_df' = Constructed(caller_df)
    /\ UNCHANGED <<trades_df, total_days, facts, raises, clock, given_df,
                   arg, probe>>

Next ==
    \/ RunAllValidatorsCall
    \/ CheckDisqualificationCall
    \/ GenerateFinalScoreCall
    \/ GetComprehensiveReportCall
    \/ GetSummaryCall

\* One evaluator on every input.
Spec == Init /\ [][Next]_vars

NextRepeated ==
    \/ Next
    \/ Construct

\* Evaluators built one after the other on the same input.
SpecRepeated == InitRepeated /\ [][NextRepeated]_vars

\* ------------------------------------------- analyzers used on their own
\* A call of an analyzer's method outside the evaluator, on the input arg
\* drawn for that method: probe records the method, its input and what it
\* returned (raised when it raised).
Probed(for, p) ==
    /\ arg.for = for
    /\ probe = NoProbe
    /\ probe' = p
    /\ UNCHANGED <<trades_df, total_days, facts, raises, evaluator, clock,
                   last, report, run, prev_report, given_df, caller_df, arg>>

\* ------------------------------------------------ the Walk-Forward judge
\* A table of trades with entry and exit dates (day numbers), in the order
\* of rets.
WalkTable(rets) ==
    [k \in 1..Len(rets) |->
        [entry_date |-> 2 * k - 1, exit_date |-> 2 * k, return_pct |-> rets[k]]]

\* The rows of a table in another order: row k of the result is the row
\* whose rank is k.
Permuted(rows, rank) ==
    [k \in 1..Len(rows) |-> rows[CHOOSE i \in 1..Len(rows) : rank[i] = k]]

\* trades_df.sort_values('exit_date').reset_index(drop=True), on tables
\* whose exit dates are distinct.
sort_values(rows) ==
    Permuted(rows,
             [i \in 1..Len(rows) |->
                 1 + Cardinality({j \in 1..Len(rows) :
                                    rows[j].exit_date < rows[i].exit_date})])

IsSorted(rows) ==
    \A i, j \in 1..Len(rows) :
        i < j => rows[i].exit_date < rows[j].exit_date

\* The row counts and train ratios split is called with.
RowCounts == {0, 1, 2, 3, 10, 22, 100}
TrainRatios ==
    {RInt(0), R(1, 10), R(29, 100), R(1, 2), R(57, 100), R(7, 10), R(15, 22),
     RInt(1)}

\* The products total_trades * train_ratio of these counts and ratios that
\* binary64 arithmetic leaves just below the whole number they equal:
\* 22 * (15 / 22) = 14.999999999999998, 100 * 0.29 = 28.999999999999996,
\* 100 * 0.57 = 56.99999999999999.
BelowWhole == {<<22, R(15, 22)>>, <<100, R(29, 100)>>, <<100, R(57, 100)>>}

\* int(total_trades * self.train_ratio)
split_idx(n, train_ratio) ==
    (n * train_ratio.num) \div train_ratio.den
    - (IF <<n, train_ratio>> \in BelowWhole THEN 1 ELSE 0)

\* WalkForwardAnalyzer.split on the sorted table self.trades.
Partition(trades, idx) ==
    [split_idx |-> idx,
     train_trades |-> SubSeq(trades, 1, idx),
     test_trades |-> SubSeq(trades, idx + 1, Len(trades))]

split(trades, train_ratio) ==
    Partition(trades, split_idx(Len(trades), train_ratio))

\* The tables split is called on: n rows in exit-date order, and one table
\* the constructor has to sort.
SplitTables ==
    {WalkTable([k \in 1..n |-> 1]) : n \in RowCounts}
    \cup {<<WalkTable(<<1, 1, 1>>)[3], WalkTable(<<1, 1, 1>>)[1],
            WalkTable(<<1, 1, 1>>)[2]>>}

SplitProbe(given, trades, train_ratio) ==
    [op |-> "split", given |-> given, trades |-> trades,
     train_ratio |-> train_ratio, result |-> split(trades, train_ratio)]

SplitArgs ==
    {[for |-> "split", trades_df |-> t, train_ratio |-> r] :
        t \in SplitTables, r \in TrainRatios}

\* WalkForwardAnalyzer(trades_df, train_ratio).split()
SplitCall ==
    Probed("split",
           SplitProbe(arg.trades_df, sort_values(arg.trades_df),
                      arg.train_ratio))

\* The return_pct column of a table of rows.
ReturnsOf(rows) == [k \in 1..Len(rows) |-> rows[k].return_pct]

\* A value or None: <<v>> or <<>>.
Some(v) == <<v>>
None == <<>>

\* The least and the greatest of a non-empty sequence of rationals.
RMinOf(s) == CHOOSE x \in Range(s) : \A y \in Range(s) : RLe(x, y)
MaxOf(s) == CHOOSE x \in Range(s) : \A y \in Range(s) : y <= x

\* Series.mean() of a non-empty selection, else 0.
MeanOrZero(s) == IF Len(s) > 0 THEN R(SumSeq(s), Len(s)) ELSE RInt(0)

\* calculate_metrics on an empty partition.
ZeroMetrics ==
    [total_trades |-> 0, winning_trades |-> 0, losing_trades |-> 0,
     win_rate |-> RInt(0), total_return |-> RInt(0), avg_return |-> RInt(0),
     avg_win |-> RInt(0), avg_loss |-> RInt(0), max_win |-> RInt(0),
     max_loss |-> RInt(0), max_drawdown |-> RInt(0),
     profit_factor |-> RInt(0), start_date |-> None, end_date |-> None]

\* drawdown = (cumulative - running_max) / running_max * 100 of the curve
\* cumulative = (1 + return_pct / 100).cumprod(), and its minimum.
DrawdownOf(cumulative, running_max) ==
    [k \in 1..Len(cumulative) |->
        R((cumulative[k] - running_max[k]) * 100, running_max[k])]

MaxDd(cumulative) == RMinOf(DrawdownOf(cumulative, RunningMax(cumulative)))

\* The metrics of a non-empty partition with returns rets.
Metrics(rows, rets, win_trades, loss_trades) ==
    [total_trades |-> Len(rets),
     winning_trades |-> Len(win_trades),
     losing_trades |-> Len(loss_trades),
     win_rate |-> R(Len(win_trades) * 100, Len(rets)),
     total_return |-> RInt(SumSeq(rets)),
     avg_return |-> R(SumSeq(rets), Len(rets)),
     avg_win |-> MeanOrZero(win_trades),
     avg_loss |-> MeanOrZero(loss_trades),
     max_win |-> RInt(MaxOf(rets)),
     max_loss |-> RInt(MinOf(rets)),
     max_drawdown |-> MaxDd(Compound(Units(1), rets, 100)),
     profit_factor |->
         IF Abs(SumSeq(loss_trades)) > 0
         THEN R(SumSeq(win_trades), Abs(SumSeq(loss_trades))) ELSE RInt(0),
     start_date |-> Some(MinOf([k \in 1..Len(rows) |-> rows[k].entry_date])),
     end_date |-> Some(MaxOf([k \in 1..Len(rows) |-> rows[k].exit_date]))]

\* WalkForwardAnalyzer.calculate_metrics
calculate_metrics(rows) ==
    IF Len(rows) = 0 THEN ZeroMetrics
    ELSE Metrics(rows, ReturnsOf(rows), SelectSeq(ReturnsOf(rows), IsWin),
                 SelectSeq(ReturnsOf(rows), IsNeg))

\* A variant of ReturnDiffPct that reports a full difference when the Train
\* average is 0.
ReturnDiffPctFull(train_avg, test_avg) ==
    IF train_avg # RInt(0)
    THEN RMul(RDiv(RSub(test_avg, train_avg), RAbs(train_avg)), RInt(100))
    ELSE RInt(100)

\* return_diff_pct, with its guard on the Train average.
ReturnDiffPct(train_avg, test_avg) ==
    IF train_avg # RInt(0)
    THEN RMul(RDiv(RSub(test_avg, train_avg), RAbs(train_avg)), RInt(100))
    ELSE RInt(0)

\* dd_ratio, with its guard on the Train drawdown.
DdRatio(train_dd, test_dd) ==
    IF train_dd # RInt(0) THEN RAbs(RDiv(test_dd, train_dd)) ELSE RInt(1)

\* WalkForwardAnalyzer.compare_metrics
compare_metrics(train_metrics, test_metrics) ==
    [win_rate_diff |-> RSub(test_metrics.win_rate, train_metrics.win_rate),
     return_diff_pct |->
         ReturnDiffPct(train_metrics.avg_return, test_metrics.avg_return),
     dd_ratio |->
         DdRatio(train_metrics.max_drawdown, test_metrics.max_drawdown),
     pf_diff |->
         RSub(test_metrics.profit_factor, train_metrics.profit_factor)]

\* The three checks of judge_overfit.
WinRatePoints(win_rate_diff) ==
    IF RLt(RAbs(win_rate_diff), RInt(5)) THEN 30
    ELSE IF RLt(RAbs(win_rate_diff), RInt(10)) THEN 20 ELSE 0

ReturnPoints(return_diff_pct) ==
    IF RLt(RAbs(return_diff_pct), RInt(20)) THEN 30
    ELSE IF RLt(RAbs(return_diff_pct), RInt(50)) THEN 20 ELSE 0

\* A variant of DrawdownPoints whose middle band is worth 30.
DrawdownPointsEven(dd_ratio) ==
    IF RLt(dd_ratio, RInt(2)) THEN 40
    ELSE IF RLt(dd_ratio, RInt(3)) THEN 30 ELSE 0

DrawdownPoints(dd_ratio) ==
    IF RLt(dd_ratio, RInt(2)) THEN 40
    ELSE IF RLt(dd_ratio, RInt(3)) THEN 25 ELSE 0

\* WalkForwardAnalyzer.judge_overfit: the score.
judge_overfit(comparison) ==
    WinRatePoints(comparison.win_rate_diff)
    + ReturnPoints(comparison.return_diff_pct)
    + DrawdownPoints(comparison.dd_ratio)

\* A variant of FinalJudgment that deploys from a score of 70.
FinalJudgmentLenient(overfit_score) ==
    IF overfit_score >= 70 THEN "deploy"
    ELSE IF overfit_score >= 60 THEN "conditional" ELSE "re-optimize"

\* The final judgment of analyze.
FinalJudgment(overfit_score) ==
    IF overfit_score >= 80 THEN "deploy"
    ELSE IF overfit_score >= 60 THEN "conditional" ELSE "re-optimize"

Judgment(train_metrics, test_metrics, comparison, overfit_score) ==
    [train_metrics |-> train_metrics, test_metrics |-> test_metrics,
     comparison |-> comparison, overfit_score |-> overfit_score,
     final_judgment |-> FinalJudgment(overfit_score)]

Compared(train_metrics, test_metrics, comparison) ==
    Judgment(train_metrics, test_metrics, comparison,
             judge_overfit(comparison))

Measured(train_metrics, test_metrics) ==
    Compared(train_metrics, test_metrics,
             compare_metrics(train_metrics, test_metrics))

\* WalkForwardAnalyzer.analyze on the sorted table self.trades.
analyze(trades, train_ratio) ==
    Measured(calculate_metrics(split(trades, train_ratio).train_trades),
             calculate_metrics(split(trades, train_ratio).test_trades))

\* The comparisons judge_overfit is called with: each difference on both
\* sides of its two thresholds.
WinRateDiffs == {RInt(-12), RInt(-10), RInt(-5), RInt(0), R(49, 10), RInt(5),
                 RInt(7), RInt(10)}
ReturnDiffs == {RInt(-60), RInt(-50), RInt(-20), RInt(0), R(199, 10),
                RInt(20), RInt(35), RInt(50)}
DdRatios == {RInt(0), RInt(1), R(19, 10), RInt(2), R(5, 2), RInt(3), RInt(4)}

JudgeArgs ==
    {[for |-> "judge_overfit",
      comparison |-> [win_rate_diff |-> w, return_diff_pct |-> r,
                      dd_ratio |-> d, pf_diff |-> RInt(0)]] :
        w \in WinRateDiffs, r \in ReturnDiffs, d \in DdRatios}

\* WalkForwardAnalyzer.judge_overfit(comparison)
JudgeOverfitCall ==
    Probed("judge_overfit",
           [op |-> "judge_overfit", comparison |-> arg.comparison,
            score |-> judge_overfit(arg.comparison)])

\* Every sequence of at most n returns drawn from the set rs.
SeqsUpTo(rs, n) == UNION {[1..k -> rs] : k \in 0..n}

\* The trade tables analyze is called on: every table of at most MaxTrades
\* trades with these returns.
MaxTrades == 4
WalkReturns == {-2, 0, 1, 3}
WalkRatios == {RInt(0), R(1, 2), R(7, 10), RInt(1)}

AnalyzeArgs ==
    {[for |-> "analyze", trades_df |-> WalkTable(rets), train_ratio |-> r] :
        rets \in SeqsUpTo(WalkReturns, MaxTrades), r \in WalkRatios}

AnalyzeProbe(trades, train_ratio) ==
    [op |-> "analyze", trades |-> trades, train_ratio |-> train_ratio,
     result |-> analyze(trades, train_ratio)]

\* WalkForwardAnalyzer(trades_df, train_ratio).analyze()
AnalyzeCall ==
    Probed("analyze",
           AnalyzeProbe(sort_values(arg.trades_df), arg.train_ratio))

\* The replays of the capital-shortage scenario: whole multiples of 100%
\* at a lot of the whole capital (the capital falls to 0, below it and back),
\* the same tables at the default lot of 1%, and trades of -150%.
ShortageReturns == {-200, -100, 0, 100}
LotPcts == {1, 100}

ShortageArgs ==
    {[for |-> "capital_shortage", returns |-> rets, fixed_lot_pct |-> f] :
        rets \in SeqsUpTo(ShortageReturns, MaxTrades)
                 \cup {<<-150>>, <<-150, -150>>},
        f \in LotPcts}

\* ExtremeScenarioAnalyzer(trades_df).analyze_capital_shortage(fixed_lot_pct)
CapitalShortageCall ==
    Probed("capital_shortage",
           [op |-> "capital_shortage", returns |-> arg.returns,
            fixed_lot_pct |-> arg.fixed_lot_pct,
            capital_history |->
                CapitalHistory(arg.returns, arg.fixed_lot_pct),
            result |->
                analyze_capital_shortage(Table(arg.returns),
                                         arg.fixed_lot_pct)])

\* The sequences of returns the streaks are counted of.
StreakReturns == {-1, 0, 1}
StreakExample == <<1, 1, -1, 1, 1, 1, -1, -1, -1, -1>>

ConsecutiveArgs ==
    {[for |-> "consecutive", returns |-> rets] :
        rets \in SeqsUpTo(StreakReturns, MaxTrades) \cup {StreakExample}}

\* TimeSeriesAnalyzer(trades_df, ...).analyze_consecutive_trades()
ConsecutiveCall ==
    Probed("consecutive",
           [op |-> "consecutive", returns |-> arg.returns,
            result |-> analyze_consecutive_trades(Table(arg.returns))])

\* max(0, x)
AtLeastZero(x) == IF RLt(x, RInt(0)) THEN RInt(0) ELSE x

\* A variant of KellyFraction that does not divide by the odds.
KellyEdge(p_win, p_loss, b) ==
    IF RLt(RInt(0), b) THEN RSub(RMul(p_win, b), p_loss) ELSE RInt(0)

\* kelly_pct = (win_rate * b - loss_rate) / b if b > 0 else 0
KellyFraction(p_win, p_loss, b) ==
    IF RLt(RInt(0), b)
    THEN RDiv(RSub(RMul(p_win, b), p_loss), b) ELSE RInt(0)

\* kelly_pct of calculate_kelly, 0 when there is no loss to divide by.
KellyPct(p_win, p_loss, avg_win, avg_loss) ==
    IF RLt(RInt(0), avg_loss)
    THEN KellyFraction(p_win, p_loss, RDiv(avg_win, avg_loss))
    ELSE RInt(0)

KellyStats(p_win, p_loss, avg_win, avg_loss, kelly_pct) ==
    [full_kelly_pct |-> AtLeastZero(RMul(kelly_pct, RInt(100))),
     fractional_kelly_pct |->
         AtLeastZero(RMul(RDiv(kelly_pct, RInt(2)), RInt(100))),
     recommended_kelly_pct |->
         AtLeastZero(RMul(RDiv(kelly_pct, RInt(2)), RInt(100))),
     win_rate |-> RMul(p_win, RInt(100)),
     loss_rate |-> RMul(p_loss, RInt(100)),
     avg_win |-> avg_win, avg_loss |-> avg_loss]

KellyOf(p_win, p_loss, avg_win, avg_loss) ==
    KellyStats(p_win, p_loss, avg_win, avg_loss,
               KellyPct(p_win, p_loss, avg_win, avg_loss))

\* The share of the trades of rets that are in part.
Rate(part, rets) == IF Len(rets) > 0 THEN R(Len(part), Len(rets)) ELSE RInt(0)

\* PositionSizer.calculate_kelly
calculate_kelly(rets) ==
    KellyOf(Rate(SelectSeq(rets, IsWin), rets),
            Rate(SelectSeq(rets, IsNeg), rets),
            MeanOrZero(SelectSeq(rets, IsWin)),
            RAbs(MeanOrZero(SelectSeq(rets, IsNeg))))

\* The tables the Kelly fraction is computed of: every table of at most
\* MaxTrades trades with these returns, and one with a win rate of 0.6, a
\* mean win of 2 and a mean loss of 1.
KellyReturns == {-2, -1, 0, 2}
KellyExample == <<2, 2, -1, 2, -1>>

KellyArgs ==
    {[for |-> "kelly", returns |-> rets] :
        rets \in SeqsUpTo(KellyReturns, MaxTrades) \cup {KellyExample}}

\* PositionSizer(trades_df).calculate_kelly()
KellyCall ==
    Probed("kelly", [op |-> "kelly", returns |-> arg.returns,
                     result |-> calculate_kelly(arg.returns)])

\* Whether compare_win_loss looks up holding_hours in partitions that were
\* taken before it added the column to self.trades_df: the table has both
\* date columns, did not have holding_hours, and has a trade.
HoldingHoursMissing(rets, dated, has_holding) ==
    dated /\ ~has_holding /\ Len(rets) > 0

\* TradeAnalyzer.compare_win_loss on a table with its columns: {} when the
\* lookup raises (the method catches every exception).
CompareWinLoss(rets, dated, has_holding) ==
    IF HoldingHoursMissing(rets, dated, has_holding) THEN EmptyDict
    ELSE compare_win_loss(Table(rets))

\* The tables compare_win_loss is called on: with and without the two date
\* columns, and with the holding_hours column an earlier call added.
CompareArgs ==
    {[for |-> "compare_win_loss", returns |-> rets, dated |-> d,
      has_holding |-> h] :
        rets \in SeqsUpTo(WalkReturns, MaxTrades),
        d \in BOOLEAN, h \in BOOLEAN}

\* TradeAnalyzer(trades_df).compare_win_loss()
CompareWinLossCall ==
    Probed("compare_win_loss",
           [op |-> "compare_win_loss", returns |-> arg.returns,
            dated |-> arg.dated,
            has_holding |-> arg.has_holding \/ arg.dated,
            result |-> CompareWinLoss(arg.returns, arg.dated,
                                      arg.has_holding)])

\* The number of items of s that satisfy Test.
CountIf(s, Test(_)) == Cardinality({k \in 1..Len(s) : Test(s[k])})

\* The seven return buckets of classify_trades.
TinyProfit(r) == r > 0 /\ r <= 1
SmallProfit(r) == r > 1 /\ r <= 3
MediumProfit(r) == r > 3 /\ r <= 10
LargeProfit(r) == r > 10
TinyLoss(r) == r < 0 /\ r >= -1
SmallLoss(r) == r < -1 /\ r >= -3
LargeLoss(r) == r < -3

SizeClassification(returns) ==
    [tiny_profit_0_1 |-> [count |-> CountIf(returns, TinyProfit)],
     small_profit_1_3 |-> [count |-> CountIf(returns, SmallProfit)],
     medium_profit_3_10 |-> [count |-> CountIf(returns, MediumProfit)],
     large_profit_10_plus |-> [count |-> CountIf(returns, LargeProfit)],
     tiny_loss_0_1 |-> [count |-> CountIf(returns, TinyLoss)],
     small_loss_1_3 |-> [count |-> CountIf(returns, SmallLoss)],
     large_loss_3_plus |-> [count |-> CountIf(returns, LargeLoss)]]

\* The four duration buckets, in hours.
Scalp(h) == h < 1
ShortTerm(h) == h >= 1 /\ h < 24
MediumTerm(h) == h >= 24 /\ h < 168
LongTerm(h) == h >= 168

HoldingClassification(holding) ==
    [scalp_lt1h |-> [count |-> CountIf(holding, Scalp)],
     short_1h_24h |-> [count |-> CountIf(holding, ShortTerm)],
     medium_1d_7d |-> [count |-> CountIf(holding, MediumTerm)],
     long_7d_plus |-> [count |-> CountIf(holding, LongTerm)]]

\* TradeAnalyzer.classify_trades; holding_hours is None when the table has
\* no holding_hours column.
classify_trades(returns, holding_hours) ==
    [size_classification |-> SizeClassification(returns),
     holding_classification |->
         IF holding_hours = None THEN EmptyDict
         ELSE HoldingClassification(holding_hours[1])]

\* The tables classify_trades is called on: at most MaxClassified trades,
\* each return and each holding duration on a cut point or beside it.
MaxClassified == 2
ClassReturns == {-4, -3, -1, 0, 1, 3, 10, 11}
ClassHours == {0, 1, 24, 168}

ClassifyArgs ==
    {[for |-> "classify_trades", returns |-> t[1], holding_hours |-> t[2]] :
        t \in UNION {([1..n -> ClassReturns]
                       \X ({None} \cup {Some(h) : h \in [1..n -> ClassHours]}))
                      : n \in 0..MaxClassified}}

\* TradeAnalyzer(trades_df).classify_trades()
ClassifyTradesCall ==
    Probed("classify_trades",
           [op |-> "classify_trades", returns |-> arg.returns,
            holding_hours |-> arg.holding_hours,
            result |-> classify_trades(arg.returns, arg.holding_hours)])

\* float('inf')
Infinity == [num |-> 1, den |-> 0]

\* (z_alpha + z_beta)**2 for alpha = 0.05, beta = 0.20, to four decimals.
ZSumSquared == R(78489, 10000)

\* A variant of required_sample_size with a sentinel of 0 for equal rates.
required_sample_size_guarded(p1, p2) ==
    IF p1 = p2 THEN RInt(0)
    ELSE RDiv(RMul(ZSumSquared,
                   RMul(RAdd(p1, p2), RSub(RInt(1), RDiv(RAdd(p1, p2), RInt(2))))),
              RMul(RSub(p1, p2), RSub(p1, p2)))

\* StatisticalTester._calculate_required_sample_size:
\* (z_alpha + z_beta)**2 * (2 * p_pool * (1 - p_pool)) / (p1 - p2)**2, which
\* is infinite for p1 = p2.
required_sample_size(p1, p2) ==
    IF p1 = p2 THEN Infinity
    ELSE RDiv(RMul(ZSumSquared,
                   RMul(RAdd(p1, p2), RSub(RInt(1), RDiv(RAdd(p1, p2), RInt(2))))),
              RMul(RSub(p1, p2), RSub(p1, p2)))

\* binom.sf(wins - 1, n, 0.5) * 2: twice the share of the 2^n outcomes
\* with at least wins wins.
TwoSidedP(wins, n) ==
    R(2 * Cardinality({o \in SUBSET (1..n) : Cardinality(o) >= wins}), 2 ^ n)

WinRateStats(wins, n, required_trades) ==
    [observed_win_rate |-> R(wins, n), wins |-> wins, losses |-> n - wins,
     total_trades |-> n, p_value |-> TwoSidedP(wins, n),
     required_trades_for_significance |->
         required_trades.num \div required_trades.den]

\* The outcome of test_win_rate_confidence: it raises on the division by
\* n_trades = 0 and on int() of an infinite required sample size.
WinRateOutcome(wins, n, required_trades) ==
    IF n = 0 \/ required_trades = Infinity
    THEN [raised |-> TRUE, result |-> EmptyDict]
    ELSE [raised |-> FALSE, result |-> WinRateStats(wins, n, required_trades)]

\* StatisticalTester.test_win_rate_confidence
test_win_rate_confidence(rets) ==
    WinRateOutcome(CountWins(rets), Len(rets),
                   required_sample_size(Rate(SelectSeq(rets, IsWin), rets),
                                        R(1, 2)))

WinRateArgs ==
    {[for |-> "win_rate_confidence", returns |-> rets] :
        rets \in SeqsUpTo(StreakReturns, MaxTrades)}

\* StatisticalTester(trades_df).test_win_rate_confidence()
WinRateConfidenceCall ==
    Probed("win_rate_confidence",
           [op |-> "win_rate_confidence", returns |-> arg.returns,
            outcome |-> test_win_rate_confidence(arg.returns)])

\* A float in [0, 1] to four decimals (units of 1/10000), with the sign of
\* the rounding residue binary64 leaves where the exact value is 0 or 1.
Float(units, residue) == [units |-> units, residue |-> residue]

\* z = norm.ppf(0.975) = 1.959964 and z**2 = 3.841459, in units of 1/10000.
ZUnits == 19600
ZSquared == 38415

\* np.sqrt of a value in units of 1/10^8, in units of 1/10000.
RECURSIVE Root(_, _, _)
Root(x, lo, hi) ==
    IF hi - lo <= 1 THEN lo
    ELSE IF ((lo + hi) \div 2) * ((lo + hi) \div 2) <= x
         THEN Root(x, (lo + hi) \div 2, hi)
         ELSE Root(x, lo, (lo + hi) \div 2)

\* The sample sizes for which center - spread at wins = 0 is positive in
\* binary64 (the exact difference is 0), and those for which
\* center + spread at wins = n is below 1 (the exact sum is 1).
RoundedAboveZero == {3, 6, 7, 12, 14, 24, 25, 28, 35}
RoundedBelowOne == {10, 13, 25, 27, 28, 30, 34, 35, 38}

\* denominator = 1 + z**2 / n
WilsonDenominator(n) == Units(1) + ZSquared \div n

\* center = (p_hat + z**2 / (2*n)) / denominator
WilsonCenter(wins, n) ==
    (((wins * Units(1)) \div n + ZSquared \div (2 * n)) * Units(1))
        \div WilsonDenominator(n)

\* spread = z * np.sqrt(p_hat * (1 - p_hat) / n + z**2 / (4*n**2))
\*          / denominator
WilsonSpread(wins, n) ==
    (ZUnits
     * Root((((wins * Units(1)) \div n)
             * (Units(1) - (wins * Units(1)) \div n)) \div n
            + (ZSquared * Units(1)) \div (4 * n * n), 0, 16384))
        \div WilsonDenominator(n)

\* max(0, center - spread)
WilsonLower(wins, n) ==
    IF wins = 0
    THEN Float(0, IF n \in RoundedAboveZero THEN 1 ELSE 0)
    ELSE IF WilsonCenter(wins, n) < WilsonSpread(wins, n) THEN Float(0, 0)
    ELSE Float(WilsonCenter(wins, n) - WilsonSpread(wins, n), 0)

\* min(1, center + spread)
WilsonUpper(wins, n) ==
    IF wins = n
    THEN Float(Units(1), IF n \in RoundedBelowOne THEN -1 ELSE 0)
    ELSE IF WilsonCenter(wins, n) + WilsonSpread(wins, n) > Units(1)
    THEN Float(Units(1), 0)
    ELSE Float(WilsonCenter(wins, n) + WilsonSpread(wins, n), 0)

\* StatisticalTester._wilson_ci(wins, n)
wilson_ci(wins, n) ==
    [lower |-> WilsonLower(wins, n), upper |-> WilsonUpper(wins, n)]

\* The samples the interval is computed of.
MaxSample == 14

WilsonArgs ==
    {a \in [for : {"wilson_ci"}, wins : 0..MaxSample, n : 1..MaxSample] :
        a.wins <= a.n}

\* StatisticalTester._wilson_ci(wins, n)
WilsonCall ==
    Probed("wilson_ci",
           [op |-> "wilson_ci", wins |-> arg.wins, n |-> arg.n,
            result |-> wilson_ci(arg.wins, arg.n)])

\* train_ratios of perform_rolling_walkforward for a window count.
RollingSchedule(num_windows) ==
    IF num_windows = 3 THEN <<R(70, 100), R(80, 100), R(90, 100)>>
    ELSE IF num_windows = 4
    THEN <<R(65, 100), R(75, 100), R(85, 100), R(92, 100)>>
    ELSE <<R(60, 100), R(70, 100), R(80, 100), R(90, 100), R(95, 100)>>

\* train_end = int(total_trades * train_ratio) of window i.
TrainEnd(n, train_ratios, i) == split_idx(n, train_ratios[i])

\* test_end: the train_end of the next window, total_trades for the last.
TestEnd(n, train_ratios, i) ==
    IF i < Len(train_ratios) THEN split_idx(n, train_ratios[i + 1]) ELSE n

\* combined = pd.concat([trades.iloc[:train_end],
\*                       trades.iloc[train_end:test_end]])
Combined(trades, train_end, test_end) ==
    SubSeq(trades, 1, train_end) \o SubSeq(trades, train_end + 1, test_end)

\* The window result: analyze() of the analyzer built on combined with
\* train_ratio = len(train_trades) / len(combined), and the partition
\* that analyzer splits combined into.
Analyzed(train_end, test_end, trades, train_ratio, window_num) ==
    [window_num |-> window_num, train_end |-> train_end,
     test_end |-> test_end,
     train_trades |-> split(trades, train_ratio).train_trades,
     test_trades |-> split(trades, train_ratio).test_trades,
     overfit_score |-> analyze(trades, train_ratio).overfit_score,
     final_judgment |-> analyze(trades, train_ratio).final_judgment]

WindowOf(train_end, test_end, combined, window_num) ==
    Analyzed(train_end, test_end, sort_values(combined),
             R(train_end, Len(combined)), window_num)

WindowResult(trades, train_ratios, i) ==
    WindowOf(TrainEnd(Len(trades), train_ratios, i),
             TestEnd(Len(trades), train_ratios, i),
             Combined(trades, TrainEnd(Len(trades), train_ratios, i),
                      TestEnd(Len(trades), train_ratios, i)), i)

\* len(train_trades) / len(combined) divides by zero on an empty window.
WindowRaises(trades, train_ratios, i) ==
    Len(Combined(trades, TrainEnd(Len(trades), train_ratios, i),
                 TestEnd(Len(trades), train_ratios, i))) = 0

\* The sum of the squares of the items of s, each times n less total.
RECURSIVE SquaredDeviations(_, _, _)
SquaredDeviations(s, n, total) ==
    IF s = <<>> THEN 0
    ELSE (Head(s) * n - total) * (Head(s) * n - total)
         + SquaredDeviations(Tail(s), n, total)

\* np.std(scores) ** 2
ScoreVariance(scores) ==
    R(SquaredDeviations(scores, Len(scores), SumSeq(scores)),
      Len(scores) * Len(scores) * Len(scores))

\* A variant of Consistency whose buckets include their upper ends.
ConsistencyInclusive(variance) ==
    IF RLe(variance, RInt(25)) THEN "very high"
    ELSE IF RLe(variance, RInt(100)) THEN "high"
    ELSE IF RLe(variance, RInt(225)) THEN "fair" ELSE "low"

\* consistency: score_std < 5, < 10, < 15, else.
Consistency(variance) ==
    IF RLt(variance, RInt(25)) THEN "very high"
    ELSE IF RLt(variance, RInt(100)) THEN "high"
    ELSE IF RLt(variance, RInt(225)) THEN "fair" ELSE "low"

\* final_judgment of the rolling analysis.
RollingJudgment(avg_score, min_score) ==
    IF RLe(RInt(80), avg_score) /\ min_score >= 70 THEN "strong"
    ELSE IF RLe(RInt(70), avg_score) /\ min_score >= 60 THEN "conditional"
    ELSE IF RLe(RInt(60), avg_score) THEN "careful" ELSE "review"

\* The aggregate of the per-window overfit scores.
RollingSummary(scores) ==
    [scores |-> scores,
     avg_score |-> R(SumSeq(scores), Len(scores)),
     score_variance |-> ScoreVariance(scores),
     min_score |-> MinOf(scores), max_score |-> MaxOf(scores),
     consistency |-> Consistency(ScoreVariance(scores)),
     final_judgment |->
         RollingJudgment(R(SumSeq(scores), Len(scores)), MinOf(scores))]

RollingResult(num_windows, window_results) ==
    [raised |-> FALSE, num_windows |-> num_windows,
     window_results |-> window_results,
     summary |->
         RollingSummary([i \in 1..Len(window_results) |->
                            window_results[i].overfit_score])]

Rolled(trades, num_windows, train_ratios) ==
    IF \E i \in 1..Len(train_ratios) : WindowRaises(trades, train_ratios, i)
    THEN [raised |-> TRUE]
    ELSE RollingResult(num_windows,
                       [i \in 1..Len(train_ratios) |->
                           WindowResult(trades, train_ratios, i)])

\* EnhancedDashboard.perform_rolling_walkforward
perform_rolling_walkforward(trades, num_windows) ==
    Rolled(trades, num_windows, RollingSchedule(num_windows))

\* The tables of the rolling analysis: 1 to MaxRolled trades, two wins
\* then a loss, a win then a loss, or wins first and losses after.
MaxRolled == 10
RolledReturns(n) ==
    {[k \in 1..n |-> IF k % 3 = 0 THEN -2 ELSE 3],
     [k \in 1..n |-> IF k % 2 = 0 THEN -2 ELSE 1],
     [k \in 1..n |-> IF 2 * k <= n THEN 3 ELSE -2]}
WindowCounts == {3, 4, 5}

RollingArgs ==
    {[for |-> "rolling", trades |-> WalkTable(rets), num_windows |-> w] :
        rets \in UNION {RolledReturns(n) : n \in 1..MaxRolled},
        w \in WindowCounts}

\* EnhancedDashboard.perform_rolling_walkforward(trades, num_windows)
RollingCall ==
    Probed("rolling",
           [op |-> "rolling", trades |-> arg.trades,
            num_windows |-> arg.num_windows,
            result |-> perform_rolling_walkforward(arg.trades,
                                                   arg.num_windows)])

\* The per-window scores the aggregate is taken of.
WindowScores == {45, 60, 70, 80, 90, 100}

SummaryArgs ==
    {[for |-> "rolling_summary", scores |-> sc] :
        sc \in UNION {[1..w -> WindowScores] : w \in WindowCounts}}

\* The aggregation step of perform_rolling_walkforward on given scores.
RollingSummaryCall ==
    Probed("rolling_summary",
           [op |-> "rolling_summary",
            summary |-> RollingSummary(arg.scores)])

\* n_periods = max(1, total_trades // period_days)
NPeriods(total, period_days) ==
    IF total \div period_days < 1 THEN 1 ELSE total \div period_days

\* start_idx and end_idx of period i (from 0).
PeriodStart(i, period_days) == i * period_days
PeriodEnd(i, period_days, total) ==
    IF (i + 1) * period_days < total THEN (i + 1) * period_days ELSE total

\* returns[start_idx:end_idx]
PeriodReturns(returns, i, period_days) ==
    SubSeq(returns, PeriodStart(i, period_days) + 1,
           PeriodEnd(i, period_days, Len(returns)))

\* period_returns.std() in hundredths: the root of
\* (len * sum of squares - sum squared) / len**2.
PeriodStd(rs) ==
    Root(((Len(rs) * SumSeq([k \in 1..Len(rs) |-> rs[k] * rs[k]])
           - SumSeq(rs) * SumSeq(rs)) * 10000) \div (Len(rs) * Len(rs)),
         0, 16384)

\* annual_std = period_std * np.sqrt(252), in hundredths.
AnnualStd(rs) == (PeriodStd(rs) * 15875) \div 1000

\* annual_return - risk_free_rate, in hundredths, with
\* annual_return = period_mean * 252 / len(period_returns).
ExcessReturn(rs) == (SumSeq(rs) * 25200) \div (Len(rs) * Len(rs)) - 2

\* period_sharpe in hundredths, 0 when annual_std is 0.
PeriodSharpe(rs) ==
    IF AnnualStd(rs) > 0 THEN (ExcessReturn(rs) * 100) \div AnnualStd(rs)
    ELSE 0

\* The lot multiplier of a period Sharpe, in tenths.
LotMultiplier(period_sharpe) ==
    IF period_sharpe > 200 THEN 10
    ELSE IF period_sharpe > 150 THEN 8
    ELSE IF period_sharpe > 100 THEN 6
    ELSE IF period_sharpe > 50 THEN 4 ELSE 2

\* The periods (from 0) whose returns are not empty.
RECURSIVE Periods(_, _, _)
Periods(returns, period_days, i) ==
    IF i >= NPeriods(Len(returns), period_days) THEN <<>>
    ELSE (IF Len(PeriodReturns(returns, i, period_days)) > 0
          THEN <<i>> ELSE <<>>)
         \o Periods(returns, period_days, i + 1)

DynamicStats(returns, period_days, periods) ==
    [period_days |-> period_days,
     n_periods |-> NPeriods(Len(returns), period_days),
     periods |->
         [j \in 1..Len(periods) |->
             [start_idx |-> PeriodStart(periods[j], period_days),
              end_idx |-> PeriodEnd(periods[j], period_days, Len(returns))]],
     period_sharpes |->
         [j \in 1..Len(periods) |->
             PeriodSharpe(PeriodReturns(returns, periods[j], period_days))],
     period_lot_multipliers |->
         [j \in 1..Len(periods) |->
             LotMultiplier(
                 PeriodSharpe(PeriodReturns(returns, periods[j],
                                            period_days)))]]

\* PositionSizer.calculate_dynamic_lot
calculate_dynamic_lot(returns, period_days) ==
    DynamicStats(returns, period_days, Periods(returns, period_days, 0))

\* The tables the dynamic lot is computed of, with periods of 2 and of 3
\* trades; the returns put the period Sharpe in each band.
LotReturns == {-8, 10, 11, 12, 14}
PeriodLengths == {2, 3}

DynamicLotArgs ==
    {[for |-> "dynamic_lot", returns |-> rets, period_days |-> d] :
        rets \in SeqsUpTo(LotReturns, MaxTrades), d \in PeriodLengths}

\* PositionSizer(trades_df).calculate_dynamic_lot(period_days = d)
DynamicLotCall ==
    Probed("dynamic_lot",
           [op |-> "dynamic_lot", returns |-> arg.returns,
            result |-> calculate_dynamic_lot(arg.returns, arg.period_days)])

\* One TradeAnalyzer on a table with entry and exit dates (and no
\* holding_hours column): the returns and, per trade, the hours from entry
\* to exit.
DatedArgs ==
    {[for |-> "trade_analyzer", returns |-> t[1], hours |-> t[2]] :
        t \in UNION {[1..n -> WalkReturns] \X [1..n -> ClassHours]
                       : n \in 1..MaxClassified}}

\* self.trades_df['holding_hours'] of that analyzer: the column
\* compare_win_loss adds to the table, absent until it has run.
HoldingColumn(p) ==
    IF p.op = "compared" /\ p.has_holding THEN Some(arg.hours) ELSE None

\* analyzer.compare_win_loss() on that analyzer.
CompareOnAnalyzerCall ==
    /\ arg.for = "trade_analyzer"
    /\ probe.op \in {"none", "compared"}
    /\ probe' = [op |-> "compared", returns |-> arg.returns,
                 hours |-> arg.hours, has_holding |-> TRUE,
                 result |-> CompareWinLoss(arg.returns, TRUE,
                                           HoldingColumn(probe) # None)]
    /\ UNCHANGED <<trades_df, total_days, facts, raises, evaluator, clock,
                   last, report, run, prev_report, given_df, caller_df, arg>>

\* analyzer.classify_trades() on that analyzer, as its first operation or
\* after compare_win_loss.
ClassifyOnAnalyzerCall ==
    /\ arg.for = "trade_analyzer"
    /\ probe.op \in {"none", "compared"}
    /\ probe' = [op |-> "classified", returns |-> arg.returns,
                 hours |-> arg.hours, compared |-> probe.op = "compared",
                 result |-> classify_trades(arg.returns, HoldingColumn(probe))]
    /\ UNCHANGED <<trades_df, total_days, facts, raises, evaluator, clock,
                   last, report, run, prev_report, given_df, caller_df, arg>>

AnalyzerArgs ==
    SplitArgs \cup JudgeArgs \cup AnalyzeArgs \cup ShortageArgs
    \cup ConsecutiveArgs \cup KellyArgs \cup CompareArgs \cup ClassifyArgs
    \cup WinRateArgs \cup WilsonArgs \cup RollingArgs \cup SummaryArgs
    \cup DynamicLotArgs \cup DatedArgs

InitAnalyzers ==
    \E a \in AnalyzerArgs :
        /\ InitEvaluator(Input(GoodTable, 190, BaseFactsOf(GoodTable), {}))
        /\ arg = a
        /\ probe = NoProbe

NextAnalyzers ==
    \/ SplitCall
    \/ JudgeOverfitCall
    \/ AnalyzeCall
    \/ CapitalShortageCall
    \/ ConsecutiveCall
    \/ KellyCall
    \/ CompareWinLossCall
    \/ ClassifyTradesCall
    \/ WinRateConfidenceCall
    \/ WilsonCall
    \/ RollingCall
    \/ RollingSummaryCall
    \/ DynamicLotCall
    \/ CompareOnAnalyzerCall
    \/ ClassifyOnAnalyzerCall

\* The analyzers called on their own, each on every input drawn for it.
SpecAnalyzers == InitAnalyzers /\ [][NextAnalyzers]_vars

\* --------------------------------------------------------- properties
\* What the properties read of the state.
Validated == "validator_results" \in evaluator.attrs
Checked == "disqualification" \in evaluator.attrs
Scored == "final_score" \in evaluator.attrs
verdict == evaluator.disqualification

\* The result of a sub-analysis in the evaluator's validator results, {}
\* when its category or its key is missing there.
Result(cat, key) ==
    IF /\ cat \in DOMAIN evaluator.validator_results
       /\ key \in DOMAIN evaluator.validator_results[cat]
    THEN evaluator.validator_results[cat][key]
    ELSE EmptyDict
Has(cat, key, field) == field \in DOMAIN Result(cat, key)

Tier1Tags ==
    {"trades < 30", "win rate < 50%", "max drawdown > -50%",
     "period < 6 months"}
Tier2Tags ==
    {"p-value >= 0.05", "Sharpe < 1.0", "max consecutive losses >= 7",
     "average loss > 3%"}
Tier3Tags ==
    {"daily trades > 1", "monthly trades < 2", "win/loss ratio < 1.5",
     "negative months >= 5", "monthly deviation > 200%"}
TagsOf(tier) ==
    CASE tier = "Tier 1" -> Tier1Tags
      [] tier = "Tier 2" -> Tier2Tags
      [] tier = "Tier 3" -> Tier3Tags
      [] OTHER -> {}

\* The conditions of Tier 1 on the table and its span: the drawdown of the
\* curve compounded from the returns is worse than -50% when the curve falls
\* below half of an earlier, positive value.
TooFewTrades == Len(trades_df.return_pct) < 30
LowWinRate == 2 * CountWins(trades_df.return_pct) < Len(trades_df.return_pct)
Halved(curve) ==
    \E j \in 1..Len(curve) : \E i \in 1..j :
        curve[i] > 0 /\ 2 * curve[j] < curve[i]
DeepDrawdown ==
    Halved(Compound(Units(InitialCapital), trades_df.return_pct, 100))
ShortSpan == total_days < 180
Tier1Condition == TooFewTrades \/ LowWinRate \/ DeepDrawdown \/ ShortSpan
Tier1Expected ==
    Opt(TooFewTrades, "trades < 30") \o Opt(LowWinRate, "win rate < 50%")
    \o Opt(DeepDrawdown, "max drawdown > -50%")
    \o Opt(ShortSpan, "period < 6 months")

\* The conditions of Tier 2 on the validator results.
HighPValue ==
    /\ Has("statistics", "2-1_win_rate", "p_value")
    /\ RLe(R(5, 100), Result("statistics", "2-1_win_rate").p_value)
SharpeBelowOne ==
    /\ Has("position_sizing", "7-3_risk_adjusted", "sharpe_ratio")
    /\ RLt(Result("position_sizing", "7-3_risk_adjusted").sharpe_ratio,
           RInt(1))
LongLosingStreak ==
    /\ Has("timeseries", "1-2_consecutive", "max_consecutive_losses")
    /\ Result("timeseries", "1-2_consecutive").max_consecutive_losses >= 7
LargeMeanLoss ==
    /\ Has("trade_analysis", "3-1_win_loss_comparison", "losing_trades")
    /\ RLt(RInt(3),
           RAbs(Result("trade_analysis", "3-1_win_loss_comparison")
                    .losing_trades.avg_return))
Tier2Condition ==
    HighPValue \/ SharpeBelowOne \/ LongLosingStreak \/ LargeMeanLoss
Tier2Expected ==
    Opt(HighPValue, "p-value >= 0.05") \o Opt(SharpeBelowOne, "Sharpe < 1.0")
    \o Opt(LongLosingStreak, "max consecutive losses >= 7")
    \o Opt(LargeMeanLoss, "average loss > 3%")

\* The conditions of Tier 3.
DailyAboveOne == total_days > 0 /\ Len(trades_df.return_pct) > total_days
MonthlyBelowTwo ==
    total_days > 0 => 30 * Len(trades_df.return_pct) < 2 * total_days
RiskReward ==
    IF Has("trade_analysis", "3-1_win_loss_comparison", "risk_reward_ratio")
    THEN Result("trade_analysis", "3-1_win_loss_comparison").risk_reward_ratio
    ELSE RInt(0)
RiskRewardKnown ==
    Has("trade_analysis", "3-1_win_loss_comparison", "risk_reward_ratio")
RiskRewardBelow == RiskRewardKnown /\ RLt(RiskReward, R(3, 2))
RiskRewardBetween == RiskRewardBelow /\ RLt(RInt(0), RiskReward)
ManyNegativeMonths ==
    /\ Has("timeseries", "1-1_monthly", "negative_months")
    /\ Result("timeseries", "1-1_monthly").negative_months >= 5
HighMonthlyDeviation ==
    /\ Has("timeseries", "1-1_monthly", "monthly_consistency")
    /\ RLt(RInt(2), Result("timeseries", "1-1_monthly").monthly_consistency)
Tier3Others ==
    DailyAboveOne \/ MonthlyBelowTwo \/ ManyNegativeMonths
    \/ HighMonthlyDeviation

\* C1: a verdict the gate returned reports the first of Tier 1, Tier 2,
\* Tier 3 that has a triggered condition, else All Clear; its reasons are
\* reasons of that tier only, and under a Tier 1 condition none of them is a
\* Tier 2 or Tier 3 reason.
C1_FirstTierOnly ==
    Checked =>
        /\ verdict.tier =
              (IF Tier1Reasons(trades_df, total_days) # <<>> THEN "Tier 1"
               ELSE IF Tier2Condition THEN "Tier 2"
               ELSE IF Tier3Others \/ RiskRewardBetween THEN "Tier 3"
               ELSE "All Clear")
        /\ Range(verdict.reasons) \subseteq TagsOf(verdict.tier)
        /\ Tier1Reasons(trades_df, total_days) # <<>>
              => Range(verdict.reasons) \cap (Tier2Tags \cup Tier3Tags) = {}

\* A Tier 1 verdict on a table that also triggers Tier 2 and Tier 3.
C1_Witness ==
    /\ Checked
    /\ verdict.tier = "Tier 1"
    /\ verdict.reasons # <<>>
    /\ Tier2Condition
    /\ ManyNegativeMonths

\* C2 as stated: a call of the gate (the validators having run) returns a
\* NO-GO Tier 1 verdict exactly when the table has fewer than 30 trades, a
\* win rate under 50%, a drawdown of the compounded capital curve worse than
\* -50% or a span under 180 days, with one reason for each that holds.
C2_Tier1Iff ==
    (last.op = "check_disqualification_criteria" /\ Validated) =>
        /\ Tier1Condition <=>
              (/\ ~last.raised
               /\ verdict.tier = "Tier 1"
               /\ verdict.status = "NO-GO")
        /\ (~last.raised /\ verdict.tier = "Tier 1")
              => verdict.reasons = Tier1Expected

InPipeline ==
    \/ last.op \in {"run_all_validators", "get_comprehensive_report"}
    \/ /\ last.op \in {"check_disqualification_criteria",
                       "generate_final_score"}
       /\ "validator_results" \in last.before

ReportFields == {"metadata", "disqualification", "final_score", "validators"}

\* C5 as stated: no call of the pipeline raises, on any table with a
\* return_pct column, and get_comprehensive_report ends with a report
\* holding metadata, disqualification, final_score and validators.
C5_PipelineNeverRaises ==
    InPipeline =>
        /\ ~last.raised
        /\ last.op = "get_comprehensive_report" =>
              /\ report.returned
              /\ ReportFields \subseteq DOMAIN report
              /\ report.disqualification # EmptyDict
              /\ report.final_score # EmptyDict

\* C6 as stated: when one sub-analysis raises, every sub-analysis has its
\* entry in the validators mapping, the raising one an empty result and
\* every other one its result.
C6_OthersSurvive ==
    (Validated /\ Cardinality(raises) = 1) =>
        \A c \in CategorySet : \A k \in Range(SubKeys(c)) :
            /\ c \in DOMAIN evaluator.validator_results
            /\ k \in DOMAIN evaluator.validator_results[c]
            /\ (k \in raises) <=> (Result(c, k) = EmptyDict)

\* The sub-analysis result each category of the score reads; the backtest
\* category reads the table, Walk-Forward an external score that is never
\* supplied.
ScoreInput(c) ==
    CASE c = "stability" -> <<"timeseries", "1-1_monthly">>
      [] c = "confidence" -> <<"statistics", "2-1_win_rate">>
      [] c = "trade" -> <<"trade_analysis", "3-1_win_loss_comparison">>
      [] c = "extreme" -> <<"extreme_scenario", "4-4_capital_shortage">>
      [] c = "position" -> <<"position_sizing", "7-3_risk_adjusted">>
      [] c = "advanced" -> <<"advanced_stats", "8-1_profit_slope">>
InputMissing(c) ==
    \/ c = "walk_forward"
    \/ /\ c # "backtest"
       /\ Result(ScoreInput(c)[1], ScoreInput(c)[2]) = EmptyDict

\* C7 as stated: a category whose input is missing scores the neutral 50.
C7_MissingIsNeutral ==
    Scored =>
        \A c \in ScoreCategories :
            InputMissing(c) => evaluator.final_score.scores[c] = RInt(50)

InRange(x) == RLe(RInt(0), x) /\ RLe(x, RInt(100))

\* C8 as stated: each of the eight scores lies in 0..100 and final_score is
\* their unweighted mean, in 0..100 as well.
C8_ScoresInRange ==
    Scored =>
        /\ \A c \in ScoreCategories : InRange(evaluator.final_score.scores[c])
        /\ evaluator.final_score.final_score =
              RDiv(RSum(evaluator.final_score.scores, ScoreCategories),
                   RInt(8))
        /\ InRange(evaluator.final_score.final_score)

\* The steps whose attribute was not set before the last call, in order.
MissingSteps ==
    Opt("validator_results" \notin last.before, "validator_results")
    \o Opt("disqualification" \notin last.before, "disqualification")
    \o Opt("final_score" \notin last.before, "final_score")

\* C9 as stated: get_comprehensive_report calls exactly the steps that had
\* not run, in the order validators, disqualification, score, and returns a
\* report holding the stored results of the three steps.
C9_ReportRunsMissingSteps ==
    last.op = "get_comprehensive_report" =>
        /\ last.steps = MissingSteps
        /\ ~last.raised
        /\ report.returned
        /\ report.validators = evaluator.validator_results
        /\ report.disqualification = evaluator.disqualification
        /\ report.final_score = evaluator.final_score

\* C10 as stated: the reports of two evaluators built one after the other
\* on the same table are equal in every field.
C10_SameReport ==
    (report.returned /\ prev_report.returned) => report = prev_report

\* C11 as stated: after construction and after every step, the caller's
\* table has the columns, with the dtypes, it had when it was passed in.
C11_CallerTableUnchanged == caller_df = given_df

\* C12 as stated: on a table of n rows in exit-date order and a train ratio
\* r, split returns the first floor(n * r) rows as Train and the other rows
\* as Test: together the table, row for row, Train before Test.
C12_SplitAtFloor ==
    (probe.op = "split" /\ IsSorted(probe.given)) =>
        LET n == Len(probe.trades)
            k == (n * probe.train_ratio.num) \div probe.train_ratio.den
        IN  /\ probe.trades = probe.given
            /\ probe.result.train_trades = SubSeq(probe.trades, 1, k)
            /\ probe.result.test_trades = SubSeq(probe.trades, k + 1, n)
            /\ probe.result.train_trades \o probe.result.test_trades
                  = probe.trades
            /\ \A a \in Range(probe.result.train_trades) :
                  \A b \in Range(probe.result.test_trades) :
                      a.exit_date < b.exit_date

\* The points the three checks are worth.
ClaimedPoints(x, first, second, high, mid) ==
    IF RLt(x, RInt(first)) THEN high
    ELSE IF RLt(x, RInt(second)) THEN mid ELSE 0

ClaimedScore(comparison) ==
    ClaimedPoints(RAbs(comparison.win_rate_diff), 5, 10, 30, 20)
    + ClaimedPoints(RAbs(comparison.return_diff_pct), 20, 50, 30, 20)
    + ClaimedPoints(comparison.dd_ratio, 2, 3, 40, 25)

\* C13: the overfit score is the sum of the three checks (30/20/0 on the
\* win-rate difference under 5 and 10, 30/20/0 on the return difference
\* under 20 and 50, 40/25/0 on the drawdown ratio under 2 and 3), it lies in
\* 0..100, and analyze judges deploy from 80, conditional from 60 and
\* re-optimize below.
C13_OverfitScore ==
    /\ probe.op = "judge_overfit" =>
          /\ probe.score = ClaimedScore(probe.comparison)
          /\ probe.score \in 0..100
    /\ probe.op = "analyze" =>
          /\ probe.result.overfit_score
                = ClaimedScore(probe.result.comparison)
          /\ probe.result.overfit_score \in 0..100
          /\ probe.result.final_judgment = "deploy"
                <=> probe.result.overfit_score >= 80
          /\ probe.result.final_judgment = "conditional"
                <=> (/\ probe.result.overfit_score >= 60
                     /\ probe.result.overfit_score < 80)
          /\ probe.result.final_judgment = "re-optimize"
                <=> probe.result.overfit_score < 60

\* An analysis of a table with trades in Train and in Test, judged
\* conditional on a score of 70.
C13_Witness ==
    /\ probe.op = "analyze"
    /\ probe.result.train_metrics.total_trades > 0
    /\ probe.result.test_metrics.total_trades > 0
    /\ probe.result.overfit_score = 70
    /\ probe.result.final_judgment = "conditional"

\* The partitions of the last analyze that are empty.
EmptyPartitionsZero ==
    /\ Len(split(probe.trades, probe.train_ratio).train_trades) = 0
          => probe.result.train_metrics = ZeroMetrics
    /\ Len(split(probe.trades, probe.train_ratio).test_trades) = 0
          => probe.result.test_metrics = ZeroMetrics

\* C14: on a table of 0 or 1 trades analyze returns its judgment, the
\* metrics of every empty partition are all zero with null dates, the return difference is
\* 0 when the Train average is 0 and the drawdown ratio 1.0 when the Train
\* drawdown is 0.
C14_FewTradesZeroed ==
    (probe.op = "analyze" /\ Len(probe.trades) <= 1) =>
        /\ probe.result.final_judgment
              \in {"deploy", "conditional", "re-optimize"}
        /\ EmptyPartitionsZero
        /\ probe.result.train_metrics.avg_return = RInt(0)
              => probe.result.comparison.return_diff_pct = RInt(0)
        /\ probe.result.train_metrics.max_drawdown = RInt(0)
              => probe.result.comparison.dd_ratio = RInt(1)

\* One trade, all of it in Test: the Train partition is empty.
C14_Witness ==
    /\ probe.op = "analyze"
    /\ Len(probe.trades) = 1
    /\ probe.result.train_metrics = ZeroMetrics
    /\ probe.result.test_metrics.total_trades = 1
    /\ probe.result.comparison.dd_ratio = RInt(1)

\* The indices (from 0) of the capital path at which the capital is <= 0.
RuinIndices == {k \in 0..Len(probe.returns) : probe.capital_history[k + 1] <= 0}

\* The capital path of the replay, in 1/10000 units, for whole-percent
\* returns at a lot of the whole capital.
IsReplay ==
    /\ probe.capital_history[1] = Units(InitialCapital)
    /\ probe.fixed_lot_pct = 100 =>
          \A k \in 1..Len(probe.returns) :
              probe.capital_history[k + 1] * 100
                  = probe.capital_history[k] * (100 + probe.returns[k])

\* C15: in the capital-shortage replay survived is true iff the least
\* capital of the path is > 0, trades_to_ruin is the first index with
\* capital <= 0 and -1 iff there is none, so survived is false exactly when
\* trades_to_ruin is not -1; one trade of -150% at a lot of 100% takes 50 to
\* -25 and survived is false.
C15_SurvivedIffNeverRuined ==
    probe.op = "capital_shortage" =>
        /\ IsReplay
        /\ probe.result.survived <=> RuinIndices = {}
        /\ probe.result.trades_to_ruin = -1 <=> RuinIndices = {}
        /\ RuinIndices # {} =>
              /\ probe.result.trades_to_ruin \in RuinIndices
              /\ \A k \in RuinIndices : probe.result.trades_to_ruin <= k
        /\ ~probe.result.survived <=> probe.result.trades_to_ruin # -1
        /\ (probe.returns = <<-150>> /\ probe.fixed_lot_pct = 100) =>
              /\ probe.capital_history[2] = Units(-25)
              /\ ~probe.result.survived

\* A replay whose capital falls to -25 at the first trade and is above 0
\* again after the second.
C15_Witness ==
    /\ probe.op = "capital_shortage"
    /\ probe.returns = <<-150, -150>>
    /\ probe.fixed_lot_pct = 100
    /\ probe.capital_history[3] > 0
    /\ ~probe.result.survived
    /\ probe.result.trades_to_ruin = 1

\* The lengths of the contiguous runs of rets whose trades are all wins
\* (return > 0) or all losses (return <= 0), and 0.
RunLengths(rets, wins) ==
    {0} \cup
    {n \in 1..Len(rets) :
        \E i \in 1..Len(rets) :
            /\ i + n - 1 <= Len(rets)
            /\ \A k \in i..(i + n - 1) :
                   IF wins THEN rets[k] > 0 ELSE rets[k] <= 0}

LongestRun(rets, wins) ==
    CHOOSE n \in RunLengths(rets, wins) :
        \A m \in RunLengths(rets, wins) : m <= n

\* C16: max_consecutive_wins is the length of the longest contiguous run of
\* trades with return > 0 and max_consecutive_losses that of trades with
\* return <= 0; 3 and 4 for [1,1,-1,1,1,1,-1,-1,-1,-1], 0 and 0 for the
\* empty sequence.
C16_LongestRuns ==
    probe.op = "consecutive" =>
        /\ probe.result.max_consecutive_wins = LongestRun(probe.returns, TRUE)
        /\ probe.result.max_consecutive_losses
              = LongestRun(probe.returns, FALSE)
        /\ probe.returns = StreakExample =>
              /\ probe.result.max_consecutive_wins = 3
              /\ probe.result.max_consecutive_losses = 4
        /\ probe.returns = <<>> =>
              /\ probe.result.max_consecutive_wins = 0
              /\ probe.result.max_consecutive_losses = 0

\* The streaks of the example sequence.
C16_Witness ==
    /\ probe.op = "consecutive"
    /\ probe.returns = StreakExample
    /\ probe.result.max_consecutive_wins = 3
    /\ probe.result.max_consecutive_losses = 4

\* The win rate p, the odds b = mean win / mean |loss| and the loss rate of
\* the table of the last calculate_kelly.
KellyP == R(CountWins(probe.returns), Len(probe.returns))
KellyB ==
    RDiv(R(SumSeq(SelectSeq(probe.returns, IsWin)), CountWins(probe.returns)),
         RAbs(R(SumSeq(SelectSeq(probe.returns, IsNeg)),
                Len(SelectSeq(probe.returns, IsNeg)))))
KellyLossRate == R(Len(SelectSeq(probe.returns, IsNeg)), Len(probe.returns))

\* A table with at least one winning and one losing trade.
WinsAndLosses ==
    /\ probe.op = "kelly"
    /\ \E k \in 1..Len(probe.returns) : probe.returns[k] > 0
    /\ \E k \in 1..Len(probe.returns) : probe.returns[k] < 0

\* C17 as stated: with at least one win and one loss the full Kelly is
\* (p*b - q)/b as a percentage with q = 1 - p, and the recommended Kelly is
\* half of it; 40% and 20% for p = 0.6, mean win 2, mean loss 1.
C17_KellyFormula ==
    WinsAndLosses =>
        /\ probe.result.full_kelly_pct
              = RMul(RInt(100),
                     RDiv(RSub(RMul(KellyP, KellyB), RSub(RInt(1), KellyP)),
                          KellyB))
        /\ probe.result.recommended_kelly_pct
              = RDiv(probe.result.full_kelly_pct, RInt(2))
        /\ probe.returns = KellyExample =>
              /\ probe.result.full_kelly_pct = RInt(40)
              /\ probe.result.recommended_kelly_pct = RInt(20)

\* C17 amended: the full Kelly is (p*b - q)/b as a percentage with q the
\* share of trades with return < 0, and 0 when that is negative; the
\* recommended Kelly is half of the reported full Kelly; 40% and 20% for
\* p = 0.6, mean win 2, mean loss 1.
C17_KellyClampedLossRate ==
    WinsAndLosses =>
        /\ probe.result.full_kelly_pct
              = AtLeastZero(
                    RMul(RInt(100),
                         RDiv(RSub(RMul(KellyP, KellyB), KellyLossRate),
                              KellyB)))
        /\ probe.result.recommended_kelly_pct
              = RDiv(probe.result.full_kelly_pct, RInt(2))
        /\ probe.returns = KellyExample =>
              /\ probe.result.full_kelly_pct = RInt(40)
              /\ probe.result.recommended_kelly_pct = RInt(20)

\* The Kelly fractions of the example table.
C17_Witness ==
    /\ WinsAndLosses
    /\ probe.returns = KellyExample
    /\ probe.result.win_rate = RInt(60)
    /\ probe.result.full_kelly_pct = RInt(40)
    /\ probe.result.recommended_kelly_pct = RInt(20)

\* C18: on a table without a losing trade, and on one whose non-winning
\* trades all have return 0, compare_win_loss returns profit_factor = 0 and
\* risk_reward_ratio = 0.
C18_NoLossZeroRatios ==
    (/\ probe.op = "compare_win_loss"
     /\ \A k \in 1..Len(probe.returns) : probe.returns[k] >= 0) =>
        /\ "profit_factor" \in DOMAIN probe.result
        /\ "risk_reward_ratio" \in DOMAIN probe.result
        /\ probe.result.profit_factor = RInt(0)
        /\ probe.result.risk_reward_ratio = RInt(0)

\* The counts of the buckets of a classification.
BucketTotal(classification) ==
    LET names == DOMAIN classification
        RECURSIVE Total(_)
        Total(ns) ==
            IF ns = {} THEN 0
            ELSE LET n == CHOOSE x \in ns : TRUE
                 IN  classification[n].count + Total(ns \ {n})
    IN  Total(names)

\* C19: the counts of the seven return buckets sum to the number of trades
\* and, when the holding duration is available, so do the counts of the
\* four duration buckets.
C19_BucketsPartition ==
    probe.op = "classify_trades" =>
        /\ Cardinality(DOMAIN probe.result.size_classification) = 7
        /\ BucketTotal(probe.result.size_classification) = Len(probe.returns)
        /\ probe.holding_hours # None =>
              /\ Cardinality(DOMAIN probe.result.holding_classification) = 4
              /\ BucketTotal(probe.result.holding_classification)
                    = Len(probe.returns)

\* C20: at a win rate of exactly 0.5 test_win_rate_confidence returns its
\* result block, p_value and required_trades_for_significance present.
C20_EvenWinRateReturns ==
    (/\ probe.op = "win_rate_confidence"
     /\ Len(probe.returns) > 0
     /\ 2 * CountWins(probe.returns) = Len(probe.returns)) =>
        /\ ~probe.outcome.raised
        /\ "p_value" \in DOMAIN probe.outcome.result
        /\ "required_trades_for_significance" \in DOMAIN probe.outcome.result

\* The order of two floats, and of a float and the fraction wins / n.
FloatLe(a, b) ==
    \/ a.units < b.units
    \/ a.units = b.units /\ a.residue <= b.residue
FloatLeShare(a, wins, n) ==
    \/ a.units * n < wins * Units(1)
    \/ a.units * n = wins * Units(1) /\ a.residue <= 0
ShareLeFloat(wins, n, a) ==
    \/ wins * Units(1) < a.units * n
    \/ wins * Units(1) = a.units * n /\ a.residue >= 0

\* C21: for n >= 1 and 0 <= wins <= n the interval of _wilson_ci contains
\* the point estimate wins / n, and 0 <= lower <= upper <= 1.
C21_WilsonContainsEstimate ==
    probe.op = "wilson_ci" =>
        /\ FloatLeShare(probe.result.lower, probe.wins, probe.n)
        /\ ShareLeFloat(probe.wins, probe.n, probe.result.upper)
        /\ FloatLe(Float(0, 0), probe.result.lower)
        /\ FloatLe(probe.result.lower, probe.result.upper)
        /\ FloatLe(probe.result.upper, Float(Units(1), 0))

\* The states that hold an aggregate of window scores.
HasSummary ==
    \/ probe.op = "rolling_summary"
    \/ probe.op = "rolling" /\ ~probe.result.raised

LastSummary ==
    IF probe.op = "rolling" THEN probe.result.summary ELSE probe.summary

\* The claimed aggregate of a summary: the order of the three scores, the
\* bucket of the score std and the two favourable judgments.
SummaryAsClaimed(sm) ==
    /\ RLe(RInt(sm.min_score), sm.avg_score)
    /\ RLe(sm.avg_score, RInt(sm.max_score))
    /\ \A i \in 1..Len(sm.scores) :
          sm.min_score <= sm.scores[i] /\ sm.scores[i] <= sm.max_score
    /\ sm.consistency = "very high" <=> RLt(sm.score_variance, RInt(25))
    /\ sm.consistency = "high"
          <=> (/\ RLe(RInt(25), sm.score_variance)
               /\ RLt(sm.score_variance, RInt(100)))
    /\ sm.consistency = "fair"
          <=> (/\ RLe(RInt(100), sm.score_variance)
               /\ RLt(sm.score_variance, RInt(225)))
    /\ sm.consistency = "low" <=> RLe(RInt(225), sm.score_variance)
    /\ sm.final_judgment = "strong"
          <=> (RLe(RInt(80), sm.avg_score) /\ sm.min_score >= 70)
    /\ sm.final_judgment = "conditional"
          <=> (/\ ~(RLe(RInt(80), sm.avg_score) /\ sm.min_score >= 70)
               /\ RLe(RInt(70), sm.avg_score)
               /\ sm.min_score >= 60)

\* C22: in the rolling analysis min_score <= avg_score <= max_score, the
\* consistency is very high iff the score std is < 5, high iff in [5, 10),
\* fair iff in [10, 15), else low, and the judgment is the strong
\* recommendation iff mean >= 80 and min >= 70, the conditional deployment
\* iff not that and mean >= 70 and min >= 60.
C22_RollingAggregate ==
    HasSummary => SummaryAsClaimed(LastSummary)

\* Four windows scoring 70, 70, 80, 80: a std of exactly 5, a mean of 75.
C22_Witness ==
    /\ probe.op = "rolling_summary"
    /\ probe.summary.scores = <<70, 70, 80, 80>>
    /\ probe.summary.consistency = "high"
    /\ probe.summary.final_judgment = "conditional"

\* The windows of the last rolling analysis as the claim places them.
WindowsAsClaimed ==
    /\ Len(probe.result.window_results) = probe.num_windows
    /\ \A i \in 1..probe.num_windows :
          /\ probe.result.window_results[i].train_trades
                = SubSeq(probe.trades, 1,
                         (Len(probe.trades)
                          * RollingSchedule(probe.num_windows)[i].num)
                         \div RollingSchedule(probe.num_windows)[i].den)
          /\ probe.result.window_results[i].test_trades
                = SubSeq(probe.trades,
                         (Len(probe.trades)
                          * RollingSchedule(probe.num_windows)[i].num)
                         \div RollingSchedule(probe.num_windows)[i].den + 1,
                         IF i = probe.num_windows THEN Len(probe.trades)
                         ELSE (Len(probe.trades)
                               * RollingSchedule(probe.num_windows)[i + 1].num)
                              \div RollingSchedule(probe.num_windows)[i + 1].den)

\* C28: on a table of at least one trade with 3, 4 or 5 windows
\* perform_rolling_walkforward returns num_windows window results, window
\* i with Train = the first floor(n*r_i) trades and Test = the trades from
\* there to floor(n*r_(i+1)), to n for the last window.
C28_RollingWindows ==
    (probe.op = "rolling" /\ Len(probe.trades) >= 1) =>
        /\ ~probe.result.raised
        /\ WindowsAsClaimed

\* The periods of the last calculate_dynamic_lot that hold trade k (from 1).
PeriodsHolding(k) ==
    {j \in 1..Len(probe.result.periods) :
        /\ probe.result.periods[j].start_idx < k
        /\ k <= probe.result.periods[j].end_idx}

\* One Sharpe value and one multiplier per window, each multiplier one of
\* 0.2 .. 1.0 (in tenths) and non-decreasing in the Sharpe of its window.
MultipliersStep ==
    /\ Len(probe.result.period_sharpes) = Len(probe.result.periods)
    /\ Len(probe.result.period_lot_multipliers) = Len(probe.result.periods)
    /\ \A i \in 1..Len(probe.result.periods) :
          /\ probe.result.period_lot_multipliers[i] \in {2, 4, 6, 8, 10}
          /\ \A j \in 1..Len(probe.result.periods) :
                probe.result.period_sharpes[i] <= probe.result.period_sharpes[j]
                => probe.result.period_lot_multipliers[i]
                     <= probe.result.period_lot_multipliers[j]

\* C23: calculate_dynamic_lot puts every trade in exactly one window of
\* period_days consecutive trades, none at the end left out, with one
\* Sharpe value and one multiplier per window, the multiplier a
\* non-decreasing step function of the Sharpe with values 0.2 .. 1.0.
C23_WindowsCoverTrades ==
    probe.op = "dynamic_lot" =>
        /\ \A k \in 1..Len(probe.returns) :
              Cardinality(PeriodsHolding(k)) = 1
        /\ MultipliersStep

\* ------------------------------------------------------------------ C24
\* The order of the verdicts: All Clear < Tier 3 < Tier 2 < Tier 1.
Severity(tier) ==
    CASE tier = "All Clear" -> 0
      [] tier = "Tier 3" -> 1
      [] tier = "Tier 2" -> 2
      [] tier = "Tier 1" -> 3

\* The verdict on the evaluator's table when no sub-analysis raises.
VerdictUnfailed ==
    Disqualification(trades_df, total_days,
                     RunAllValidators(trades_df, facts, {}, 0))

\* A category of the evaluator's results was replaced by {} after a
\* failure, on a table every sub-analysis can be computed for.
CategoryFailed ==
    /\ Checked
    /\ MustRaise(trades_df) = {}
    /\ \E c \in CategorySet : evaluator.validator_results[c] = EmptyDict

\* C24 as stated: the verdict computed with a failed category replaced by
\* an empty result is at least as severe as the verdict computed when every
\* category succeeded.
C24_FailureNeverFavours ==
    CategoryFailed =>
        Severity(verdict.tier) >= Severity(VerdictUnfailed.tier)

\* ------------------------------------------------------------------ C25
\* The operations of the evaluator.
EvaluatorOps ==
    {"run_all_validators", "check_disqualification_criteria",
     "generate_final_score", "get_summary", "get_comprehensive_report"}

\* C25 as stated: on a table the pipeline run in order does not raise on,
\* a call of any operation, whatever calls came before it, does not raise.
C25_AnyOrder ==
    (last.op \in EvaluatorOps /\ ~MaxDrawdownRaises(trades_df)) =>
        ~last.raised

\* ------------------------------------------------------------------ C26
\* The decision outputs of a report: status, tier and reasons, the eight
\* category scores, the final score and the rating.
Decision(rep) ==
    [status |-> rep.disqualification.status,
     tier |-> rep.disqualification.tier,
     reasons |-> rep.disqualification.reasons,
     scores |-> rep.final_score.scores,
     final_score |-> rep.final_score.final_score,
     rating |-> rep.final_score.rating]

BootstrapMean(rep) ==
    rep.validators["extreme_scenario"]["5-2_bootstrap"].bootstrap_mean

\* C26: the reports of two evaluators built one after the other on the same
\* table, dates and capital carry the same status, tier, reasons, category
\* scores, final score and rating, whatever the bootstrap resampling and
\* the clock gave in each run.
C26_DecisionDeterministic ==
    (report.returned /\ prev_report.returned) =>
        Decision(report) = Decision(prev_report)

\* Two reports on the same input whose bootstrap means and timestamps
\* differ.
C26_Witness ==
    /\ report.returned
    /\ prev_report.returned
    /\ BootstrapMean(report) # BootstrapMean(prev_report)
    /\ report.metadata.timestamp # prev_report.metadata.timestamp
    /\ report.final_score.timestamp # prev_report.final_score.timestamp
    /\ Decision(report) = Decision(prev_report)

\* ------------------------------------------------------------------ C27
\* One of the three checks of the comparison c is worth 0 points.
SomeCheckZero(c) ==
    \/ WinRatePoints(c.win_rate_diff) = 0
    \/ ReturnPoints(c.return_diff_pct) = 0
    \/ DrawdownPoints(c.dd_ratio) = 0

\* The three checks of c fall in their best band: |win-rate difference|
\* < 5, |return difference| < 20, drawdown ratio < 2.
AllBest(c) ==
    /\ RLt(RAbs(c.win_rate_diff), RInt(5))
    /\ RLt(RAbs(c.return_diff_pct), RInt(20))
    /\ RLt(c.dd_ratio, RInt(2))

\* C27: in analyze, a check worth 0 points excludes the judgment 'deploy',
\* and the score (of analyze and of judge_overfit) is 100 exactly when the
\* three checks fall in their best band.
C27_ZeroCheckNeverDeploys ==
    /\ probe.op = "analyze" =>
          /\ SomeCheckZero(probe.result.comparison)
                => probe.result.final_judgment # "deploy"
          /\ probe.result.overfit_score = 100
                <=> AllBest(probe.result.comparison)
    /\ probe.op = "judge_overfit" =>
          (probe.score = 100 <=> AllBest(probe.comparison))

\* An analysis whose return check alone is worth 0 points: 70 points, not
\* deployed.
C27_Witness ==
    /\ probe.op = "analyze"
    /\ ReturnPoints(probe.result.comparison.return_diff_pct) = 0
    /\ WinRatePoints(probe.result.comparison.win_rate_diff) = 30
    /\ DrawdownPoints(probe.result.comparison.dd_ratio) = 40
    /\ probe.result.overfit_score = 70
    /\ probe.result.final_judgment = "conditional"

\* ------------------------------------------------------------------ C29
\* C29 as stated: on a table with entry and exit dates, classify_trades
\* returns what it returns as the first operation of the analyzer, whether
\* or not compare_win_loss was called before it.
C29_ClassifyIndependent ==
    probe.op = "classified" =>
        probe.result = classify_trades(probe.returns, None)

\* ------------------------------------------------------------------ C30
\* C30 as stated: the p_value test_win_rate_confidence reports lies in
\* [0, 1], for every number of trades n >= 1 and every number of wins.
C30_PValueIsProbability ==
    (/\ probe.op = "win_rate_confidence"
     /\ Len(probe.returns) >= 1
     /\ ~probe.outcome.raised) =>
        /\ RLe(RInt(0), probe.outcome.result.p_value)
        /\ RLe(probe.outcome.result.p_value, RInt(1))

====
